---- MODULE Spec2Model ----
(***************************************************************************)
(* Model of the JWT extraction-and-verification subsystem of websec        *)
(* (app/src/utils/jwt-verification.ts).                                    *)
(*                                                                         *)
(* JavaScript strings are sequences of one-character strings; a Buffer is  *)
(* a sequence of bytes 0..255.  The non-string values null, undefined and  *)
(* a number are one-element sequences holding a marker that is not a       *)
(* character.  PEM keys are opaque names; what the crypto primitives make  *)
(* of a key is given by KeyType and KeyCurve.                              *)
(***************************************************************************)
EXTENDS Integers, Sequences, FiniteSets, TLC

\* ------------------------------------------------------------------------
\* JavaScript values
\* ------------------------------------------------------------------------
NULL == <<"null">>
UNDEFINED == <<"undefined">>
NUMBER == <<"123">>
JS_TRUE == <<"true">>
JS_FALSE == <<"false">>
JS_ZERO == <<"0">>
\* an array holding one text, as a JSON or form body can carry
ARRAY == <<"array">>

IsString(v) == v \notin {NULL, UNDEFINED, NUMBER, JS_TRUE, JS_FALSE, JS_ZERO, ARRAY}

\* JavaScript truthiness of a string, null, undefined or a non-zero number
Truthy(v) == v \notin {<<>>, NULL, UNDEFINED, JS_FALSE, JS_ZERO}

Range(f) == {f[i] : i \in DOMAIN f}

\* s.slice(from, to) with 1-based inclusive positions
Slice(s, from, to) == IF to < from THEN <<>> ELSE SubSeq(s, from, to)

\* const v = x; F(v): x is evaluated once and F works on its value
Let(x, F(_)) == CHOOSE r \in {F(v) : v \in {x}} : TRUE

\* ------------------------------------------------------------------------
\* Alphabets
\* ------------------------------------------------------------------------
\* the base64 alphabet of Buffer.from(x, 'base64') after the two replaces
B64Chars ==
  <<"A","B","C","D","E","F","G","H","I","J","K","L","M","N","O","P",
    "Q","R","S","T","U","V","W","X","Y","Z","a","b","c","d","e","f",
    "g","h","i","j","k","l","m","n","o","p","q","r","s","t","u","v",
    "w","x","y","z","0","1","2","3","4","5","6","7","8","9","+","/">>

B64Index == [c \in Range(B64Chars) |-> (CHOOSE i \in 1..64 : B64Chars[i] = c) - 1]

\* the character class [A-Za-z0-9_-] of jwtRegex
SegChars == (Range(B64Chars) \ {"+", "/"}) \cup {"-", "_"}

\* ------------------------------------------------------------------------
\* ieee1363ToDer
\* ------------------------------------------------------------------------
\* int[0] & 0x80 (an empty buffer reads undefined, and undefined & 0x80 is 0)
HighBit(buf, i) == i <= Len(buf) /\ buf[i] >= 128

\* the while loop of encodeInteger: first index (0-based) that is kept
RECURSIVE TrimIndex(_, _)
TrimIndex(paddedInt, i) ==
  IF i < Len(paddedInt) - 1 /\ paddedInt[i + 1] = 0 /\ ~HighBit(paddedInt, i + 2)
  THEN TrimIndex(paddedInt, i + 1)
  ELSE i

\* variant: the leading zero bytes are kept
encodeInteger_noTrimming(int) ==
  LET needsPadding == HighBit(int, 1)
      paddedInt == IF needsPadding THEN <<0>> \o int ELSE int
      trimmedInt == paddedInt
  IN  <<2, Len(trimmedInt) % 256>> \o trimmedInt

\* variant: no 0x00 is prepended when the high bit is set
encodeInteger_noPadding(int) ==
  LET paddedInt == int
      i == TrimIndex(paddedInt, 0)
      trimmedInt == Slice(paddedInt, i + 1, Len(paddedInt))
  IN  <<2, Len(trimmedInt) % 256>> \o trimmedInt

encodeInteger(int) ==
  LET needsPadding == HighBit(int, 1)
      paddedInt == IF needsPadding THEN <<0>> \o int ELSE int
      i == TrimIndex(paddedInt, 0)
      trimmedInt == Slice(paddedInt, i + 1, Len(paddedInt))
  IN  <<2, Len(trimmedInt) % 256>> \o trimmedInt

ieee1363ToDer(signature) ==
  LET len == Len(signature) \div 2
      r == Slice(signature, 1, len)
      s == Slice(signature, len + 1, Len(signature))
      rDer == encodeInteger(r)
      sDer == encodeInteger(s)
      derSignature == rDer \o sDer
  IN  <<48, Len(derSignature) % 256>> \o derSignature

\* ------------------------------------------------------------------------
\* String helpers of the JavaScript runtime
\* ------------------------------------------------------------------------
\* token.split('.'): the pieces between consecutive '.' characters
Split(s) ==
  LET dots == {i \in 1..Len(s) : s[i] = "."}
      n == Cardinality(dots)
      \* position of the k-th '.', 0 before the first, Len(s) + 1 after the last
      dot(k) == IF k = 0 THEN 0
                ELSE IF k = n + 1 THEN Len(s) + 1
                ELSE CHOOSE d \in dots : Cardinality({e \in dots : e < d}) = k - 1
  IN  [k \in 1..(n + 1) |-> Slice(s, dot(k - 1) + 1, dot(k) - 1)]

\* signatureB64.replace(/-/g, '+').replace(/_/g, '/')
ReplaceUrlChars(s) ==
  [i \in 1..Len(s) |-> IF s[i] = "-" THEN "+" ELSE IF s[i] = "_" THEN "/" ELSE s[i]]

RECURSIVE Pow2(_)
Pow2(n) == IF n = 0 THEN 1 ELSE 2 * Pow2(n - 1)

\* Buffer.from(x, 'base64'): characters outside the alphabet are skipped,
\* every 4 characters give 3 bytes, a trailing partial byte is dropped
Base64Decode(s) ==
  Let(SelectSeq(s, LAMBDA c : c \in DOMAIN B64Index), LAMBDA vals :
    [j \in 1..((Len(vals) * 6) \div 8) |->
       LET k == (8 * (j - 1)) \div 6
           o == (8 * (j - 1)) % 6
           v12 == B64Index[vals[k + 1]] * 64 + B64Index[vals[k + 2]]
       IN  (v12 \div Pow2(4 - o)) % 256])

\* base64url without padding, as jwt.sign writes the signature segment
Base64UrlEncode(bytes) ==
  LET n == (Len(bytes) * 8 + 5) \div 6
  IN  [i \in 1..n |->
         LET b == (6 * (i - 1)) \div 8
             o == (6 * (i - 1)) % 8
             lo == IF b + 2 <= Len(bytes) THEN bytes[b + 2] ELSE 0
             v16 == bytes[b + 1] * 256 + lo
             v == (v16 \div Pow2(10 - o)) % 64
         IN  IF v = 62 THEN "-" ELSE IF v = 63 THEN "_" ELSE B64Chars[v + 1]]

\* 'haystack'.includes('needle') on messages kept as sequences of words
Includes(haystack, needle) ==
  \E i \in 0..(Len(haystack) - Len(needle)) :
    \A j \in 1..Len(needle) : haystack[i + j] = needle[j]

\* ------------------------------------------------------------------------
\* extractJWTFromInput
\* ------------------------------------------------------------------------
\* [A-Za-z0-9_-]+ matched greedily from position i: the position after the
\* run, or i when the run is empty
RunEnd(s, i) ==
  LET stops == {j \in i..Len(s) : s[j] \notin SegChars}
  IN  IF stops = {} THEN (IF i > Len(s) THEN i ELSE Len(s) + 1)
      ELSE CHOOSE j \in stops : \A m \in stops : j <= m

\* variant: the pattern takes every further '.'-joined segment as well
RECURSIVE MoreSegments(_, _)
MoreSegments(s, e) ==
  IF e <= Len(s) /\ s[e] = "." /\ RunEnd(s, e + 1) > e + 1
  THEN MoreSegments(s, RunEnd(s, e + 1))
  ELSE e

RegexMatchAt_everySegment(s, i) ==
  LET e1 == RunEnd(s, i)
      e2 == RunEnd(s, e1 + 1)
      e3 == RunEnd(s, e2 + 1)
  IN  IF e1 > i /\ e1 <= Len(s) /\ s[e1] = "."
         /\ e2 > e1 + 1 /\ e2 <= Len(s) /\ s[e2] = "."
         /\ e3 > e2 + 1
      THEN MoreSegments(s, e3) ELSE 0

\* jwtRegex anchored at position i: the position after the match, 0 if none.
\* A segment cannot hold a '.', so giving back characters of a run never
\* turns a failed match into a successful one.
RegexMatchAt(s, i) ==
  LET e1 == RunEnd(s, i)
      e2 == RunEnd(s, e1 + 1)
      e3 == RunEnd(s, e2 + 1)
  IN  IF e1 > i /\ e1 <= Len(s) /\ s[e1] = "."
         /\ e2 > e1 + 1 /\ e2 <= Len(s) /\ s[e2] = "."
         /\ e3 > e2 + 1
      THEN e3 ELSE 0

\* input.match(jwtRegex): the regex is tried at each position from the left,
\* the first position where it matches wins; NULL when there is none
RECURSIVE MatchFrom(_, _)
MatchFrom(s, i) ==
  IF i > Len(s) THEN NULL
  ELSE IF RegexMatchAt(s, i) # 0 THEN Slice(s, i, RegexMatchAt(s, i) - 1)
  ELSE MatchFrom(s, i + 1)

\* variant: the pattern ends with a blank that is not part of the match
RegexMatch_blankAfter(s) ==
  LET starts == {i \in 1..Len(s) :
                   /\ RegexMatchAt(s, i) # 0
                   /\ RegexMatchAt(s, i) <= Len(s)
                   /\ s[RegexMatchAt(s, i)] = " "}
  IN  IF starts = {} THEN NULL
      ELSE LET i == CHOOSE j \in starts : \A k \in starts : j <= k
           IN  Slice(s, i, RegexMatchAt(s, i) - 1)

\* variant: the pattern is anchored at the start of the input
RegexMatch_anchored(s) ==
  IF RegexMatchAt(s, 1) # 0 THEN Slice(s, 1, RegexMatchAt(s, 1) - 1) ELSE NULL

RegexMatch(s) == MatchFrom(s, 1)

\* input.match(jwtRegex) as the runtime evaluates it: a value without a
\* match method raises a TypeError
stringMatch(input) ==
  IF ~IsString(input)
  THEN [threw |-> TRUE, value |-> NULL,
        message |-> <<"input.match", "is", "not", "a", "function">>, trace |-> <<>>]
  ELSE [threw |-> FALSE, value |-> RegexMatch(input), message |-> <<>>, trace |-> <<>>]

\* variant: the guard is `!input` alone
extractJWTFromInputCall_noTypeGuard(input) ==
  IF ~Truthy(input)
  THEN [threw |-> FALSE, value |-> NULL, message |-> <<>>, trace |-> <<>>]
  ELSE Let(stringMatch(input), LAMBDA match :
         IF match.threw THEN match
         ELSE [match EXCEPT !.value = IF match.value # NULL THEN match.value ELSE NULL])

\* the call of extractJWTFromInput: what it returns, or the error it raises
extractJWTFromInputCall(input) ==
  IF ~Truthy(input) \/ ~IsString(input)
  THEN [threw |-> FALSE, value |-> NULL, message |-> <<>>, trace |-> <<>>]
  ELSE Let(stringMatch(input), LAMBDA match :
         IF match.threw THEN match
         ELSE [match EXCEPT !.value = IF match.value # NULL THEN match.value ELSE NULL])

\* the value extractJWTFromInput returns
extractJWTFromInput(input) == extractJWTFromInputCall(input).value

\* ------------------------------------------------------------------------
\* Keys and the ECDSA primitive of the crypto library
\* ------------------------------------------------------------------------
KEY_TEST == <<"TEST_PUBLIC_KEY">>
KEY_OTHER == <<"OTHER_PUBLIC_KEY">>
KEY_K1 == <<"JWT_PUBLIC_KEY_PROD">>
KEY_P521 == <<"P521_PUBLIC_KEY">>
KEY_RSA == <<"RSA_PUBLIC_KEY">>
KEY_TEXT == <<"wrong-prod-key">>

EcKeys == {KEY_TEST, KEY_OTHER, KEY_K1, KEY_P521}
PemKeys == EcKeys \cup {KEY_RSA}

\* key.asymmetricKeyType after createPublicKey, "secret" after createSecretKey
KeyType(k) == IF k \in EcKeys THEN "ec" ELSE IF k = KEY_RSA THEN "rsa" ELSE "secret"

\* key.asymmetricKeyDetails.namedCurve
KeyCurve(k) ==
  CASE k = KEY_K1 -> "secp256k1"
    [] k = KEY_P521 -> "secp521r1"
    [] OTHER -> "prime256v1"

\* byte width of r and of s on a curve
CurveBytes(curve) == IF curve = "secp521r1" THEN 66 ELSE 32

KeySeed(k) ==
  CASE k = KEY_TEST -> 154
    [] k = KEY_OTHER -> 77
    [] k = KEY_K1 -> 0
    [] OTHER -> 1

\* SHA-256 stands for an opaque digest of the message; the model keeps one
\* byte of it
RECURSIVE Digest(_, _)
Digest(msg, i) ==
  IF i > Len(msg) THEN 7
  ELSE LET c == IF msg[i] \in DOMAIN B64Index THEN B64Index[msg[i]] ELSE 64
       IN  (Digest(msg, i + 1) * 31 + c + i) % 256

\* the raw signature r || s the holder of k's private key produces for msg.
\* A signature names its key in r and the digest in s, so that it verifies
\* under exactly one key and for exactly one message.
SignRaw(k, msg) ==
  LET L == CurveBytes(KeyCurve(k))
      h == Digest(msg, 1)
      lead == IF L = 32 THEN KeySeed(k) ELSE 1
      rByte(i) == IF i = 1 THEN lead
                  ELSE IF i = 2 THEN 128 + ((KeySeed(k) + 1) % 128)
                  ELSE (KeySeed(k) + 3 * i) % 256
      sByte(i) == IF i = 1 THEN (IF L = 32 THEN h ELSE h % 2)
                  ELSE IF i = 2 THEN (255 - h)
                  ELSE (h + 5 * i) % 256
  IN  [i \in 1..(2 * L) |-> IF i <= L THEN rByte(i) ELSE sByte(i - L)]

\* an unsigned big-endian integer without its leading zero bytes
RECURSIVE StripZeros(_)
StripZeros(b) == IF Len(b) > 0 /\ b[1] = 0 THEN StripZeros(Tail(b)) ELSE b

\* ECDSA verification of (r, s), given as unsigned integers, on k's own curve
EcdsaVerify(k, msg, r, s) ==
  LET L == CurveBytes(KeyCurve(k))
      sig == SignRaw(k, msg)
  IN  /\ r = StripZeros(Slice(sig, 1, L))
      /\ s = StripZeros(Slice(sig, L + 1, 2 * L))

\* ------------------------------------------------------------------------
\* DER decoding of an ECDSA-Sig-Value, as the crypto library does it
\* ------------------------------------------------------------------------
DerFail == [ok |-> FALSE, len |-> 0, next |-> 0]

\* a DER length at position pos: short form below 128, long form above
DerLength(der, pos) ==
  IF pos > Len(der) THEN DerFail
  ELSE LET b == der[pos] IN
    IF b < 128 THEN [ok |-> TRUE, len |-> b, next |-> pos + 1]
    ELSE LET k == b - 128 IN
      IF k = 0 \/ k > 2 \/ pos + k > Len(der) THEN DerFail
      ELSE LET n == IF k = 1 THEN der[pos + 1]
                    ELSE der[pos + 1] * 256 + der[pos + 2]
           IN  IF n < 128 \/ (k = 2 /\ der[pos + 1] = 0) THEN DerFail
               ELSE [ok |-> TRUE, len |-> n, next |-> pos + 1 + k]

IntFail == [ok |-> FALSE, value |-> <<>>, next |-> 0]

\* a DER INTEGER at position pos: its content bytes, minimally encoded
DerInteger(der, pos) ==
  IF pos > Len(der) \/ der[pos] # 2 THEN IntFail
  ELSE LET l == DerLength(der, pos + 1) IN
    IF ~l.ok \/ l.len = 0 \/ l.next + l.len - 1 > Len(der) THEN IntFail
    ELSE LET v == Slice(der, l.next, l.next + l.len - 1) IN
      IF Len(v) > 1 /\ ((v[1] = 0 /\ v[2] < 128) \/ (v[1] = 255 /\ v[2] >= 128))
      THEN IntFail
      ELSE [ok |-> TRUE, value |-> v, next |-> l.next + l.len]

SigFail == [ok |-> FALSE, r |-> <<>>, s |-> <<>>]

\* SEQUENCE { INTEGER r, INTEGER s } with nothing before, between or after
DerDecodeSignature(der) ==
  IF Len(der) < 2 \/ der[1] # 48 THEN SigFail
  ELSE LET l == DerLength(der, 2) IN
    IF ~l.ok \/ l.next + l.len - 1 # Len(der) THEN SigFail
    ELSE LET r == DerInteger(der, l.next) IN
      IF ~r.ok THEN SigFail
      ELSE LET s == DerInteger(der, r.next) IN
        IF ~s.ok \/ s.next # Len(der) + 1 THEN SigFail
        ELSE [ok |-> TRUE, r |-> r.value, s |-> s.value]

\* ------------------------------------------------------------------------
\* Results of calls: a returned value or a thrown error, with the calls made
\* ------------------------------------------------------------------------
Ret(v, tr) == [threw |-> FALSE, value |-> v, message |-> <<>>, trace |-> tr]
Throw(msg, tr) == [threw |-> TRUE, value |-> FALSE, message |-> msg, trace |-> tr]

Event(f, token, key) == [fn |-> f, token |-> token, key |-> key]

\* ------------------------------------------------------------------------
\* Token contents
\* ------------------------------------------------------------------------
\* header.alg of a decoded header segment, "" when it does not decode
HeaderAlg(seg) ==
  IF seg = <<"e">> THEN "ES256" ELSE IF seg = <<"h">> THEN "HS256" ELSE ""

\* payload.exp and payload.nbf of a decoded payload, -1 when absent
ClaimExp(seg) == IF seg = <<"x">> THEN 1 ELSE -1
ClaimNbf(seg) == IF seg = <<"n">> THEN 2 ELSE -1

\* payload.iss of a decoded payload, UNDEFINED when absent
ClaimIss(seg) == IF seg = <<"i">> THEN <<"i","s","s","u","e","r">> ELSE UNDEFINED

IsSegment(seg) == \A i \in 1..Len(seg) : seg[i] \in SegChars

\* ------------------------------------------------------------------------
\* jwt.verify of the jsonwebtoken library, called without a callback
\* ------------------------------------------------------------------------
\* variant: the claims of the payload are enforced
VerifyOptions_claimsEnforced ==
  [algorithms |-> {"ES256"}, ignoreExpiration |-> FALSE, ignoreNotBefore |-> FALSE,
   issuer |-> <<"w","e","b","s","e","c">>]

\* variant: ignoreExpiration is not passed
VerifyOptions_expiryEnforced ==
  [algorithms |-> {"ES256"}, ignoreExpiration |-> FALSE, ignoreNotBefore |-> TRUE,
   issuer |-> UNDEFINED]

\* an option the call does not pass reads undefined
VerifyOptions ==
  [algorithms |-> {"ES256"}, ignoreExpiration |-> TRUE, ignoreNotBefore |-> TRUE,
   issuer |-> UNDEFINED]

MSG_CURVE == <<"\"alg\"", "parameter", "\"ES256\"", "requires", "curve", "\"prime256v1\".">>

jwtVerify(jwtString, secretOrPublicKey, options, env) ==
  IF ~Truthy(jwtString) THEN Throw(<<"jwt", "must", "be", "provided">>, <<>>)
  ELSE IF ~IsString(jwtString) THEN Throw(<<"jwt", "must", "be", "a", "string">>, <<>>)
  ELSE Let(Split(jwtString), LAMBDA parts :
  IF Len(parts) # 3 THEN Throw(<<"jwt", "malformed">>, <<>>)
  ELSE LET alg == HeaderAlg(parts[1])
           hasSignature == parts[3] # <<>>
           message == parts[1] \o <<".">> \o parts[2]
       IN
  IF ~(parts[1] # <<>> /\ parts[2] # <<>> /\ \A i \in 1..3 : IsSegment(parts[i]))
     \/ alg = ""
  THEN Throw(<<"invalid", "token">>, <<>>)
  ELSE IF ~hasSignature /\ Truthy(secretOrPublicKey)
  THEN Throw(<<"jwt", "signature", "is", "required">>, <<>>)
  ELSE IF hasSignature /\ ~Truthy(secretOrPublicKey)
  THEN Throw(<<"secret", "or", "public", "key", "must", "be", "provided">>, <<>>)
  ELSE IF alg \notin options.algorithms
  THEN Throw(<<"invalid", "algorithm">>, <<>>)
  ELSE IF KeyType(secretOrPublicKey) = "secret"
  THEN Throw(<<"secretOrPublicKey", "must", "be", "an", "asymmetric", "key",
               "when", "using", alg>>, <<>>)
  ELSE IF KeyType(secretOrPublicKey) # "ec"
  THEN Throw(<<"\"alg\"", "parameter", "for", "\"rsa\"", "key", "type", "must",
               "be", "one", "of:", "RS256,", "PS256,", "RS384,", "PS384,",
               "RS512,", "PS512.">>, <<>>)
  ELSE IF KeyCurve(secretOrPublicKey) # "prime256v1"
  THEN Throw(MSG_CURVE, <<>>)
  ELSE Let(Base64Decode(ReplaceUrlChars(parts[3])), LAMBDA raw :
  IF Len(raw) # 2 * CurveBytes("prime256v1")
  THEN Throw(<<"\"ES256\"", "signatures", "must", "be", "\"64\"", "bytes">>, <<>>)
  ELSE IF ~EcdsaVerify(secretOrPublicKey, message,
                       StripZeros(Slice(raw, 1, Len(raw) \div 2)),
                       StripZeros(Slice(raw, Len(raw) \div 2 + 1, Len(raw))))
  THEN Throw(<<"invalid", "signature">>, <<>>)
  ELSE IF ClaimNbf(parts[2]) # -1 /\ ~options.ignoreNotBefore
          /\ ClaimNbf(parts[2]) > env.now
  THEN Throw(<<"jwt", "not", "active">>, <<>>)
  ELSE IF ClaimExp(parts[2]) # -1 /\ ~options.ignoreExpiration
          /\ env.now >= ClaimExp(parts[2])
  THEN Throw(<<"jwt", "expired">>, <<>>)
  ELSE IF options.issuer # UNDEFINED /\ ClaimIss(parts[2]) # options.issuer
  THEN Throw(<<"jwt", "issuer", "invalid.">>, <<>>)
  ELSE Ret(TRUE, <<>>)))

\* ------------------------------------------------------------------------
\* createVerify('SHA256').update(message).verify(publicKeyPem, signatureDER)
\* ------------------------------------------------------------------------
cryptoVerify(publicKeyPem, message, signatureDER, env) ==
  IF publicKeyPem \notin PemKeys
  THEN Throw(<<"error:1E08010C:DECODER", "routines::unsupported">>, <<>>)
  ELSE IF KeyType(publicKeyPem) # "ec" THEN Ret(FALSE, <<>>)
  ELSE Let(DerDecodeSignature(signatureDER), LAMBDA d :
    IF ~d.ok
    THEN IF env.badDerThrows
         THEN Throw(<<"error:0680008E:asn1", "encoding", "routines::not", "enough", "data">>, <<>>)
         ELSE Ret(FALSE, <<>>)
    ELSE IF d.r[1] >= 128 \/ d.s[1] >= 128 THEN Ret(FALSE, <<>>)
    ELSE Ret(EcdsaVerify(publicKeyPem, message, StripZeros(d.r), StripZeros(d.s)), <<>>))

\* ------------------------------------------------------------------------
\* manuallyVerifyJWTSignature
\* ------------------------------------------------------------------------
\* what the manual verifier hands to the converter and to the verifier
Verified(publicKeyPem, message, signatureIEEE, signatureDER) ==
  [fn |-> "verifier.verify", key |-> publicKeyPem, message |-> message,
   signatureIEEE |-> signatureIEEE, signatureDER |-> signatureDER]

\* variant: the message is the payload segment alone
manuallyVerifyTry_payloadOnly(token, publicKeyPem, env) ==
  IF ~IsString(token)
  THEN Throw(<<"token.split", "is", "not", "a", "function">>, <<>>)
  ELSE Let(Split(token), LAMBDA parts :
    IF Len(parts) # 3 THEN Ret(FALSE, <<>>)
    ELSE LET headerB64 == parts[1]
             payloadB64 == parts[2]
             signatureB64 == parts[3]
             message == payloadB64
             signatureBase64 == ReplaceUrlChars(signatureB64)
         IN  Let(Base64Decode(signatureBase64), LAMBDA signatureIEEE :
             Let(ieee1363ToDer(signatureIEEE), LAMBDA signatureDER :
             Let(cryptoVerify(publicKeyPem, message, signatureDER, env), LAMBDA v :
               [v EXCEPT !.trace =
                  <<Verified(publicKeyPem, message, signatureIEEE, signatureDER)>>]))))

\* the try block
manuallyVerifyTry(token, publicKeyPem, env) ==
  IF ~IsString(token)
  THEN Throw(<<"token.split", "is", "not", "a", "function">>, <<>>)
  ELSE Let(Split(token), LAMBDA parts :
    IF Len(parts) # 3 THEN Ret(FALSE, <<>>)
    ELSE LET headerB64 == parts[1]
             payloadB64 == parts[2]
             signatureB64 == parts[3]
             message == headerB64 \o <<".">> \o payloadB64
             signatureBase64 == ReplaceUrlChars(signatureB64)
         IN  Let(Base64Decode(signatureBase64), LAMBDA signatureIEEE :
             Let(ieee1363ToDer(signatureIEEE), LAMBDA signatureDER :
             Let(cryptoVerify(publicKeyPem, message, signatureDER, env), LAMBDA v :
               [v EXCEPT !.trace =
                  <<Verified(publicKeyPem, message, signatureIEEE, signatureDER)>>]))))

\* variant: the try block without its catch
manuallyVerify_noCatch(token, publicKeyPem, env) ==
  manuallyVerifyTry(token, publicKeyPem, env)

\* try { ... } catch (error) { return false; }
manuallyVerifyJWTSignature(token, publicKeyPem, env) ==
  Let(manuallyVerifyTry(token, publicKeyPem, env), LAMBDA t :
    IF t.threw THEN Ret(FALSE, t.trace) ELSE t)

\* ------------------------------------------------------------------------
\* verifyJWTSignature
\* ------------------------------------------------------------------------
\* variant: every error of the standard verification leads to the fallback
verifyJWTSignature_fallbackOnAnyError(token, publicKey, env) ==
  IF ~Truthy(token) \/ ~Truthy(publicKey) THEN Ret(FALSE, <<>>)
  ELSE Let(jwtVerify(token, publicKey, VerifyOptions, env), LAMBDA std :
    LET called == <<Event("jwt.verify", token, publicKey)>> IN
    IF ~std.threw THEN Ret(TRUE, called)
    ELSE LET errorMessage == std.message
             isCurveMismatch == TRUE
         IN
      IF isCurveMismatch
      THEN Let(manuallyVerifyJWTSignature(token, publicKey, env), LAMBDA m :
             [m EXCEPT !.trace =
                called \o <<Event("manuallyVerifyJWTSignature", token, publicKey)>> \o @])
      ELSE Ret(FALSE, called))

\* variant: the last return of the catch block gives true
verifyJWTSignature_trueAfterError(token, publicKey, env) ==
  IF ~Truthy(token) \/ ~Truthy(publicKey) THEN Ret(FALSE, <<>>)
  ELSE Let(jwtVerify(token, publicKey, VerifyOptions, env), LAMBDA std :
    LET called == <<Event("jwt.verify", token, publicKey)>> IN
    IF ~std.threw THEN Ret(TRUE, called)
    ELSE LET errorMessage == std.message
             isCurveMismatch == Includes(errorMessage, <<"requires", "curve">>)
         IN
      IF isCurveMismatch
      THEN Let(manuallyVerifyJWTSignature(token, publicKey, env), LAMBDA m :
             [m EXCEPT !.trace =
                called \o <<Event("manuallyVerifyJWTSignature", token, publicKey)>> \o @])
      ELSE Ret(TRUE, called))

\* variant: the guard checks the token only
verifyJWTSignature_noKeyGuard(token, publicKey, env) ==
  IF ~Truthy(token) THEN Ret(FALSE, <<>>)
  ELSE Let(jwtVerify(token, publicKey, VerifyOptions, env), LAMBDA std :
    LET called == <<Event("jwt.verify", token, publicKey)>> IN
    IF ~std.threw THEN Ret(TRUE, called)
    ELSE LET errorMessage == std.message
             isCurveMismatch == Includes(errorMessage, <<"requires", "curve">>)
         IN
      IF isCurveMismatch
      THEN Let(manuallyVerifyJWTSignature(token, publicKey, env), LAMBDA m :
             [m EXCEPT !.trace =
                called \o <<Event("manuallyVerifyJWTSignature", token, publicKey)>> \o @])
      ELSE Ret(FALSE, called))

verifyJWTSignature(token, publicKey, env) ==
  IF ~Truthy(token) \/ ~Truthy(publicKey) THEN Ret(FALSE, <<>>)
  ELSE Let(jwtVerify(token, publicKey, VerifyOptions, env), LAMBDA std :
    LET called == <<Event("jwt.verify", token, publicKey)>> IN
    IF ~std.threw THEN Ret(TRUE, called)
    ELSE LET errorMessage == std.message
             isCurveMismatch == Includes(errorMessage, <<"requires", "curve">>)
         IN
      IF isCurveMismatch
      THEN Let(manuallyVerifyJWTSignature(token, publicKey, env), LAMBDA m :
             [m EXCEPT !.trace =
                called \o <<Event("manuallyVerifyJWTSignature", token, publicKey)>> \o @])
      ELSE Ret(FALSE, called))

\* ------------------------------------------------------------------------
\* extractAndVerifyJWT
\* ------------------------------------------------------------------------
ERR_NO_TOKEN == <<"No JWT token found in input">>
ERR_SIGNATURE == <<"JWT signature verification failed">>

\* variant: the token is left out of the returned object
Outcome_noToken(isValid, token, error) ==
  [isValid |-> isValid, token |-> UNDEFINED, error |-> error]

\* variant: the error is left out of the returned object
Outcome_noError(isValid, token, error) ==
  [isValid |-> isValid, token |-> token, error |-> UNDEFINED]

Outcome(isValid, token, error) == [isValid |-> isValid, token |-> token, error |-> error]

\* variant: the development key is tried in every mode
extractAndVerifyJWT_devInAnyMode(input, publicKeyProd, publicKeyDev, isDevelopment, env) ==
  Let(extractJWTFromInput(input), LAMBDA token :
  IF ~Truthy(token) THEN Ret(Outcome(FALSE, UNDEFINED, ERR_NO_TOKEN), <<>>)
  ELSE
    Let(verifyJWTSignature(token, publicKeyProd, env), LAMBDA prod :
    LET prodTrace == <<Event("verifyJWTSignature", token, publicKeyProd)>> \o prod.trace
    IN
    IF prod.threw THEN Throw(prod.message, prodTrace)
    ELSE IF prod.value THEN Ret(Outcome(TRUE, token, UNDEFINED), prodTrace)
    ELSE IF Truthy(publicKeyDev)
    THEN Let(verifyJWTSignature(token, publicKeyDev, env), LAMBDA dev :
         LET devTrace == prodTrace \o <<Event("verifyJWTSignature", token, publicKeyDev)>>
                           \o dev.trace
         IN
         IF dev.threw THEN Throw(dev.message, devTrace)
         ELSE IF dev.value THEN Ret(Outcome(TRUE, token, UNDEFINED), devTrace)
         ELSE Ret(Outcome(FALSE, token, ERR_SIGNATURE), devTrace))
    ELSE Ret(Outcome(FALSE, token, ERR_SIGNATURE), prodTrace)))

\* variant: the development key is never tried
extractAndVerifyJWT_prodOnly(input, publicKeyProd, publicKeyDev, isDevelopment, env) ==
  Let(extractJWTFromInput(input), LAMBDA token :
  IF ~Truthy(token) THEN Ret(Outcome(FALSE, UNDEFINED, ERR_NO_TOKEN), <<>>)
  ELSE
    Let(verifyJWTSignature(token, publicKeyProd, env), LAMBDA prod :
    LET prodTrace == <<Event("verifyJWTSignature", token, publicKeyProd)>> \o prod.trace
    IN
    IF prod.threw THEN Throw(prod.message, prodTrace)
    ELSE IF prod.value THEN Ret(Outcome(TRUE, token, UNDEFINED), prodTrace)
    ELSE IF FALSE
    THEN Let(verifyJWTSignature(token, publicKeyDev, env), LAMBDA dev :
         LET devTrace == prodTrace \o <<Event("verifyJWTSignature", token, publicKeyDev)>>
                           \o dev.trace
         IN
         IF dev.threw THEN Throw(dev.message, devTrace)
         ELSE IF dev.value THEN Ret(Outcome(TRUE, token, UNDEFINED), devTrace)
         ELSE Ret(Outcome(FALSE, token, ERR_SIGNATURE), devTrace))
    ELSE Ret(Outcome(FALSE, token, ERR_SIGNATURE), prodTrace)))

\* variant: the development key is tried before the production key
extractAndVerifyJWT_devFirst(input, publicKeyProd, publicKeyDev, isDevelopment, env) ==
  Let(extractJWTFromInput(input), LAMBDA token :
  IF ~Truthy(token) THEN Ret(Outcome(FALSE, UNDEFINED, ERR_NO_TOKEN), <<>>)
  ELSE
    LET swap == isDevelopment /\ Truthy(publicKeyDev)
        first == IF swap THEN publicKeyDev ELSE publicKeyProd
        second == IF swap THEN publicKeyProd ELSE publicKeyDev
    IN
    Let(verifyJWTSignature(token, first, env), LAMBDA prod :
    LET prodTrace == <<Event("verifyJWTSignature", token, first)>> \o prod.trace
    IN
    IF prod.threw THEN Throw(prod.message, prodTrace)
    ELSE IF prod.value THEN Ret(Outcome(TRUE, token, UNDEFINED), prodTrace)
    ELSE IF isDevelopment /\ Truthy(publicKeyDev)
    THEN Let(verifyJWTSignature(token, second, env), LAMBDA dev :
         LET devTrace == prodTrace \o <<Event("verifyJWTSignature", token, second)>>
                           \o dev.trace
         IN
         IF dev.threw THEN Throw(dev.message, devTrace)
         ELSE IF dev.value THEN Ret(Outcome(TRUE, token, UNDEFINED), devTrace)
         ELSE Ret(Outcome(FALSE, token, ERR_SIGNATURE), devTrace))
    ELSE Ret(Outcome(FALSE, token, ERR_SIGNATURE), prodTrace)))

\* variant: in development mode the development key replaces the production
\* key
extractAndVerifyJWT_devKeyReplaces(input, publicKeyProd, publicKeyDev, isDevelopment, env) ==
  Let(extractJWTFromInput(input), LAMBDA token :
  IF ~Truthy(token) THEN Ret(Outcome(FALSE, UNDEFINED, ERR_NO_TOKEN), <<>>)
  ELSE
    LET key == IF isDevelopment THEN publicKeyDev ELSE publicKeyProd IN
    Let(verifyJWTSignature(token, key, env), LAMBDA only :
    LET trace == <<Event("verifyJWTSignature", token, key)>> \o only.trace
    IN
    IF only.threw THEN Throw(only.message, trace)
    ELSE IF only.value THEN Ret(Outcome(TRUE, token, UNDEFINED), trace)
    ELSE Ret(Outcome(FALSE, token, ERR_SIGNATURE), trace)))

extractAndVerifyJWT(input, publicKeyProd, publicKeyDev, isDevelopment, env) ==
  Let(extractJWTFromInput(input), LAMBDA token :
  IF ~Truthy(token) THEN Ret(Outcome(FALSE, UNDEFINED, ERR_NO_TOKEN), <<>>)
  ELSE
    Let(verifyJWTSignature(token, publicKeyProd, env), LAMBDA prod :
    LET prodTrace == <<Event("verifyJWTSignature", token, publicKeyProd)>> \o prod.trace
    IN
    IF prod.threw THEN Throw(prod.message, prodTrace)
    ELSE IF prod.value THEN Ret(Outcome(TRUE, token, UNDEFINED), prodTrace)
    ELSE IF isDevelopment /\ Truthy(publicKeyDev)
    THEN Let(verifyJWTSignature(token, publicKeyDev, env), LAMBDA dev :
         LET devTrace == prodTrace \o <<Event("verifyJWTSignature", token, publicKeyDev)>>
                           \o dev.trace
         IN
         IF dev.threw THEN Throw(dev.message, devTrace)
         ELSE IF dev.value THEN Ret(Outcome(TRUE, token, UNDEFINED), devTrace)
         ELSE Ret(Outcome(FALSE, token, ERR_SIGNATURE), devTrace))
    ELSE Ret(Outcome(FALSE, token, ERR_SIGNATURE), prodTrace)))

\* ------------------------------------------------------------------------
\* The earlier version of the module, without the fallback
\* ------------------------------------------------------------------------
\* verifyJWTSignature of the earlier version: every error gives false
verifyJWTSignatureEarlier(token, publicKey, env) ==
  IF ~Truthy(token) \/ ~Truthy(publicKey) THEN Ret(FALSE, <<>>)
  ELSE Let(jwtVerify(token, publicKey, VerifyOptions, env), LAMBDA std :
    LET called == <<Event("jwt.verify", token, publicKey)>> IN
    IF ~std.threw THEN Ret(TRUE, called)
    ELSE Ret(FALSE, called))

\* extractAndVerifyJWT of the earlier version
extractAndVerifyJWTEarlier(input, publicKeyProd, publicKeyDev, isDevelopment, env) ==
  Let(extractJWTFromInput(input), LAMBDA token :
  IF ~Truthy(token) THEN Ret(Outcome(FALSE, UNDEFINED, ERR_NO_TOKEN), <<>>)
  ELSE
    Let(verifyJWTSignatureEarlier(token, publicKeyProd, env), LAMBDA prod :
    LET prodTrace == <<Event("verifyJWTSignature", token, publicKeyProd)>> \o prod.trace
    IN
    IF prod.value THEN Ret(Outcome(TRUE, token, UNDEFINED), prodTrace)
    ELSE IF isDevelopment /\ Truthy(publicKeyDev)
    THEN Let(verifyJWTSignatureEarlier(token, publicKeyDev, env), LAMBDA dev :
         LET devTrace == prodTrace \o <<Event("verifyJWTSignature", token, publicKeyDev)>>
                           \o dev.trace
         IN
         IF dev.value THEN Ret(Outcome(TRUE, token, UNDEFINED), devTrace)
         ELSE Ret(Outcome(FALSE, token, ERR_SIGNATURE), devTrace))
    ELSE Ret(Outcome(FALSE, token, ERR_SIGNATURE), prodTrace)))

\* ------------------------------------------------------------------------
\* Tokens and inputs the callers hand in
\* ------------------------------------------------------------------------
\* largest value of the clock
MaxNow == 2

Tok(h, p, sig) == h \o <<".">> \o p \o <<".">> \o sig

\* jwt.sign(payload, privateKey, { algorithm: 'ES256' }) with k's private key
jwtSign(p, k) ==
  Tok(<<"e">>, p, Base64UrlEncode(SignRaw(k, <<"e">> \o <<".">> \o p)))

\* the third segment of a token
SigOf(token) == Split(token)[3]

validToken == jwtSign(<<"p">>, KEY_TEST)
prodtoken == jwtSign(<<"p">>, KEY_K1)

\* a signature segment with its first character replaced
TamperSig(sig) == [sig EXCEPT ![1] = IF @ = "A" THEN "B" ELSE "A"]

invalidSignatureToken ==
  Tok(<<"e">>, <<"p">>,
      <<"I","N","V","A","L","I","D","S","I","G","N","A","T","U","R","E">>)

\* jwt.sign(payload, 'different-secret', { algorithm: 'HS256' })
wrongToken == Tok(<<"h">>, <<"p">>, Base64UrlEncode([i \in 1..32 |-> (9 * i) % 256]))

SignedTokens ==
  {jwtSign(<<"p">>, k) : k \in EcKeys}
    \cup {jwtSign(p, k) : p \in {<<"x">>, <<"n">>, <<"i">>}, k \in {KEY_TEST, KEY_K1}}

TamperedTokens ==
  {Tok(<<"e">>, <<"q">>, SigOf(t)) : t \in {validToken, prodtoken}}
    \cup {Tok(<<"e">>, <<"p">>, TamperSig(SigOf(t))) : t \in {validToken, prodtoken}}
    \cup {invalidSignatureToken, wrongToken}

ShortTokens ==
  {Tok(<<"e">>, <<"p">>, sig) : sig \in {<<"A">>, <<"A","A">>, <<"g","A","E">>}}
    \cup {Tok(<<"z">>, <<"p">>, SigOf(validToken))}

Tokens == SignedTokens \cup TamperedTokens \cup ShortTokens

PlainText == <<"p","l","a","i","n"," ","t","e","x","t">>

\* the text around a token, as in 'Check out this token: ... - it's valid!'
InText(t) == <<"t","o","k","e","n",":"," ">> \o t \o <<" ","-"," ","o","k","!">>

\* a token inside surrounding text, after a further segment, before one,
\* and directly after a letter
Wrapped(t) ==
  { InText(t),
    <<"v","1",".">> \o t,
    t \o <<".","p","a","r","t","4">>,
    <<"J">> \o t }

Inputs ==
  {validToken, prodtoken, Tok(<<"e">>, <<"q">>, SigOf(validToken)), wrongToken,
   Tok(<<"e">>, <<"p">>, <<"A","A">>)}
    \cup Wrapped(validToken) \cup {InText(prodtoken), InText(jwtSign(<<"x">>, KEY_TEST))}
    \cup {<<>>, NULL, UNDEFINED, NUMBER, PlainText,
          <<"h","e","a","d","e","r",".","p","a","y","l","o","a","d">>}

\* what verifyJWTSignature is called with directly
TokenArgs ==
  Tokens \cup {<<>>, NULL, UNDEFINED, NUMBER, PlainText,
               <<"h","e","a","d","e","r",".","p","a","y","l","o","a","d">>,
               <<"n","o","t",".","a",".","v","a","l","i","d",".","j","w","t">>,
               <<"e",".","p",".">>}

KeyArgs == PemKeys \cup {KEY_TEXT, <<>>, NULL, UNDEFINED}

\* the keys the host configures for extractAndVerifyJWT
ConfiguredKeys == {KEY_TEST, KEY_K1, KEY_TEXT, <<>>}

\* ------------------------------------------------------------------------
\* State
\* ------------------------------------------------------------------------
VARIABLES
  fn,             \* the exported function being called, "idle" between calls
  input,          \* argument of extractJWTFromInput and extractAndVerifyJWT
  token,          \* argument of verifyJWTSignature
  publicKey,      \* argument of verifyJWTSignature
  publicKeyProd,  \* arguments of extractAndVerifyJWT
  publicKeyDev,
  isDevelopment,
  signature,      \* argument of ieee1363ToDer
  result,         \* what the call returned or threw, and the calls it made
  now,            \* the clock jwt.verify reads
  badDerThrows,   \* whether the crypto library throws on an undecodable signature
  seen,           \* an earlier call, kept to compare a later call with
  req,            \* the HTTP request being handled
  res,            \* the responses sent for it
  effects,        \* the calls made while handling it
  entries,        \* the rows of the entries table
  session,        \* the user of the client's session
  nodeEnv         \* process.env.NODE_ENV of the host

appVars == <<req, res, effects, entries, session, nodeEnv>>

vars == <<fn, input, token, publicKey, publicKeyProd, publicKeyDev,
          isDevelopment, signature, result, now, badDerThrows, seen, appVars>>

env == [now |-> now, badDerThrows |-> badDerThrows]

NoArgs ==
  /\ input = UNDEFINED /\ token = UNDEFINED /\ publicKey = UNDEFINED
  /\ publicKeyProd = UNDEFINED /\ publicKeyDev = UNDEFINED
  /\ isDevelopment = FALSE
  /\ signature = <<>>

\* no call has been kept
NoCall ==
  [fn |-> "none", args |-> <<>>, result |-> Ret(FALSE, <<>>), now |-> 0, others |-> FALSE]

\* no request has arrived, the table is empty and nobody is logged in
NoRequest ==
  /\ req = UNDEFINED
  /\ res = <<>>
  /\ effects = <<>>
  /\ entries = <<>>
  /\ session = UNDEFINED

\* the module is used without the host
NoHost == NoRequest /\ nodeEnv = UNDEFINED

Init ==
  /\ fn = "idle"
  /\ NoArgs
  /\ result = Ret(FALSE, <<>>)
  /\ now = 0
  /\ badDerThrows \in BOOLEAN
  /\ seen = NoCall
  /\ NoHost

CallExtract ==
  /\ fn = "idle"
  /\ \E i \in Inputs :
       /\ input' = i
       /\ result' = extractJWTFromInputCall(i)
  /\ fn' = "extractJWTFromInput"
  /\ UNCHANGED <<token, publicKey, publicKeyProd, publicKeyDev, isDevelopment,
                 signature, now, badDerThrows, seen, appVars>>

CallVerify ==
  /\ fn = "idle"
  /\ \E t \in TokenArgs, k \in KeyArgs :
       /\ token' = t
       /\ publicKey' = k
       /\ result' = verifyJWTSignature(t, k, env)
  /\ fn' = "verifyJWTSignature"
  /\ UNCHANGED <<input, publicKeyProd, publicKeyDev, isDevelopment, signature,
                 now, badDerThrows, seen, appVars>>

CallExtractAndVerify ==
  /\ fn = "idle"
  /\ \E i \in Inputs, kp \in ConfiguredKeys, kd \in ConfiguredKeys, d \in BOOLEAN :
       /\ input' = i
       /\ publicKeyProd' = kp
       /\ publicKeyDev' = kd
       /\ isDevelopment' = d
       /\ result' = extractAndVerifyJWT(i, kp, kd, d, env)
  /\ fn' = "extractAndVerifyJWT"
  /\ UNCHANGED <<token, publicKey, signature, now, badDerThrows, seen, appVars>>

\* the frame of the call is gone
EndCall ==
  /\ fn # "idle"
  /\ fn' = "idle"
  /\ input' = UNDEFINED /\ token' = UNDEFINED /\ publicKey' = UNDEFINED
  /\ publicKeyProd' = UNDEFINED /\ publicKeyDev' = UNDEFINED
  /\ isDevelopment' = FALSE
  /\ signature' = <<>>
  /\ result' = Ret(FALSE, <<>>)
  /\ UNCHANGED <<now, badDerThrows, appVars>>

\* the call is over; nothing of it is kept
Return ==
  /\ EndCall
  /\ UNCHANGED seen

Tick ==
  /\ fn = "idle"
  /\ now < MaxNow
  /\ now' = now + 1
  /\ UNCHANGED <<fn, input, token, publicKey, publicKeyProd, publicKeyDev,
                 isDevelopment, signature, result, badDerThrows, seen, appVars>>

Next == CallExtract \/ CallVerify \/ CallExtractAndVerify \/ Return \/ Tick

Spec == Init /\ [][Next]_vars

\* ------------------------------------------------------------------------
\* Properties of extractAndVerifyJWT
\* ------------------------------------------------------------------------

\* C1: with isDevelopment = false the outcome of extractAndVerifyJWT does not
\* depend on publicKeyDev: the call returns what it returns for every other
\* development key, every verifier invocation it makes uses the production
\* key, and a token that verifies only under the development key is invalid.
C1_DevKeyIgnoredOutsideDevelopment ==
  (fn = "extractAndVerifyJWT" /\ ~isDevelopment) =>
    /\ \A d \in KeyArgs :
         LET o == extractAndVerifyJWT(input, publicKeyProd, d, FALSE, env)
         IN  o.threw = result.threw /\ (~o.threw => o.value = result.value)
    /\ \A i \in 1..Len(result.trace) : result.trace[i].key = publicKeyProd
    /\ Cardinality({i \in 1..Len(result.trace) :
                      result.trace[i].fn = "verifyJWTSignature"}) <= 1
    /\ LET t == extractJWTFromInput(input) IN
         (t # NULL /\ ~verifyJWTSignature(t, publicKeyProd, env).value)
           => (~result.threw /\ ~result.value.isValid)

\* a production-mode call whose token verifies under the development key
\* only, and which was answered invalid
C1_Witness ==
  /\ fn = "extractAndVerifyJWT" /\ ~isDevelopment
  /\ publicKeyDev # publicKeyProd
  /\ extractJWTFromInput(input) # NULL
  /\ verifyJWTSignature(extractJWTFromInput(input), publicKeyDev, env).value
  /\ ~verifyJWTSignature(extractJWTFromInput(input), publicKeyProd, env).value
  /\ ~result.value.isValid

\* C2: isValid is true exactly when a token t is extracted and either t
\* verifies under the production key, or the mode is development, the
\* development key is non-empty and t verifies under it; with an empty
\* development key no second attempt is made.
C2_ValidExactlyWhenAKeyVerifies ==
  fn = "extractAndVerifyJWT" =>
    LET t == extractJWTFromInput(input) IN
    /\ ~result.threw
    /\ result.value.isValid =
         (/\ t # NULL
          /\ \/ verifyJWTSignature(t, publicKeyProd, env).value
             \/ /\ isDevelopment
                /\ publicKeyDev # <<>>
                /\ verifyJWTSignature(t, publicKeyDev, env).value)
    /\ (isDevelopment /\ publicKeyDev = <<>>) =>
         Cardinality({i \in 1..Len(result.trace) :
                        result.trace[i].fn = "verifyJWTSignature"}) <= 1

\* a development-mode call accepted through the development key
C2_Witness ==
  /\ fn = "extractAndVerifyJWT" /\ isDevelopment
  /\ result.value.isValid
  /\ ~verifyJWTSignature(extractJWTFromInput(input), publicKeyProd, env).value
  /\ verifyJWTSignature(extractJWTFromInput(input), publicKeyDev, env).value

\* C3: the verifier invocations of one call, in order: none when no token is
\* extracted; otherwise one or two, all on the extracted token, the first with
\* the production key, a second one only with the development key and only
\* after the production attempt returned false.
C3_KeysTriedInPriorityOrder ==
  fn = "extractAndVerifyJWT" =>
    LET t == extractJWTFromInput(input)
        calls == SelectSeq(result.trace, LAMBDA e : e.fn = "verifyJWTSignature")
    IN
    IF t = NULL THEN result.trace = <<>>
    ELSE /\ Len(calls) \in {1, 2}
         /\ \A i \in 1..Len(calls) : calls[i].token = t
         /\ calls[1].key = publicKeyProd
         /\ result.trace[1] = calls[1]
         /\ Len(calls) = 2 =>
              /\ calls[2].key = publicKeyDev
              /\ ~verifyJWTSignature(t, publicKeyProd, env).value
         /\ verifyJWTSignature(t, publicKeyProd, env).value => Len(calls) = 1

\* a call that tried the production key, then a different development key,
\* and was accepted on the second attempt
C3_Witness ==
  /\ fn = "extractAndVerifyJWT"
  /\ publicKeyDev # publicKeyProd
  /\ Cardinality({i \in 1..Len(result.trace) :
                    result.trace[i].fn = "verifyJWTSignature"}) = 2
  /\ result.value.isValid

\* C4: an outcome with isValid = true has a token and no error, and the
\* token is the string extractJWTFromInput returns for the input.
C4_ValidOutcomeCarriesExtractedToken ==
  (fn = "extractAndVerifyJWT" /\ ~result.threw /\ result.value.isValid) =>
    /\ result.value.token # UNDEFINED
    /\ result.value.error = UNDEFINED
    /\ result.value.token = extractJWTFromInput(input)

\* a valid outcome whose token is a proper part of the input
C4_Witness ==
  /\ fn = "extractAndVerifyJWT"
  /\ result.value.isValid
  /\ result.value.token # input
  /\ Len(result.value.token) < Len(input)

\* C5: an outcome with isValid = false has an error; its token is absent
\* exactly when no token was found: then the error is the no-token reason,
\* otherwise the token is the extracted one and the error is the
\* signature-verification-failed reason.
C5_InvalidOutcomeShape ==
  (fn = "extractAndVerifyJWT" /\ ~result.threw /\ ~result.value.isValid) =>
    LET t == extractJWTFromInput(input) IN
    /\ result.value.error # UNDEFINED
    /\ (result.value.token = UNDEFINED) = (t = NULL)
    /\ t = NULL => result.value = [isValid |-> FALSE, token |-> UNDEFINED,
                                   error |-> <<"No JWT token found in input">>]
    /\ t # NULL => result.value = [isValid |-> FALSE, token |-> t,
                                   error |-> <<"JWT signature verification failed">>]
    /\ input \in {<<>>, NULL, UNDEFINED} => t = NULL

\* a token found inside text and refused under both keys
C5_Witness ==
  /\ fn = "extractAndVerifyJWT"
  /\ ~result.value.isValid
  /\ result.value.token # UNDEFINED
  /\ result.value.token # input
  /\ Cardinality({i \in 1..Len(result.trace) :
                    result.trace[i].fn = "verifyJWTSignature"}) = 2

\* ------------------------------------------------------------------------
\* Properties of verifyJWTSignature
\* ------------------------------------------------------------------------

\* C6: no call of extractJWTFromInput, verifyJWTSignature or
\* extractAndVerifyJWT ends in an exception: each returns a value, a boolean
\* for verifyJWTSignature and an outcome for extractAndVerifyJWT, whatever
\* the standard verification or the manual verifier raised.
C6_NothingThrows ==
  fn # "idle" =>
    /\ ~result.threw
    /\ fn = "verifyJWTSignature" => result.value \in BOOLEAN
    /\ fn = "extractAndVerifyJWT" => result.value.isValid \in BOOLEAN

\* a call in which the standard verification raised the curve error and the
\* manual verifier's try block raised an error as well
C6_Witness ==
  /\ fn = "verifyJWTSignature"
  /\ Truthy(token) /\ Truthy(publicKey)
  /\ jwtVerify(token, publicKey, VerifyOptions, env).threw
  /\ manuallyVerifyTry(token, publicKey, env).threw
  /\ Len(result.trace) = 3
  /\ result.value = FALSE

\* C7: the manual verifier is invoked exactly when the standard verification
\* raised an error whose message contains 'requires curve', which happens
\* only for an ES256 token checked with an EC key on another curve; when the
\* standard verification succeeds the result is true, and for every other
\* error it is false, in both cases without the manual verifier.
C7_FallbackOnlyOnCurveMismatch ==
  fn = "verifyJWTSignature" =>
    LET std == jwtVerify(token, publicKey, VerifyOptions, env)
        entered == Truthy(token) /\ Truthy(publicKey)
        curveError == entered /\ std.threw
                        /\ Includes(std.message, <<"requires", "curve">>)
        manual == \E i \in 1..Len(result.trace) :
                    result.trace[i].fn = "manuallyVerifyJWTSignature"
    IN
    /\ manual = curveError
    /\ manual => /\ publicKey \in EcKeys
                 /\ KeyCurve(publicKey) # "prime256v1"
                 /\ Len(Split(token)) = 3
                 /\ HeaderAlg(Split(token)[1]) = "ES256"
    /\ (entered /\ ~std.threw) => (result.value = TRUE /\ ~manual)
    /\ (entered /\ std.threw /\ ~curveError) => (result.value = FALSE /\ ~manual)

\* a call that went through the manual verifier
C7_Witness ==
  /\ fn = "verifyJWTSignature"
  /\ \E i \in 1..Len(result.trace) :
       result.trace[i].fn = "manuallyVerifyJWTSignature"
  /\ result.value = TRUE

\* C8: when the standard verification raises the curve error, the result is
\* the manual verifier's verdict, and that verdict is true exactly when the
\* third segment is a valid ECDSA signature (r, s) over 'header.payload'
\* under the key.
C8_FallbackVerdictIsSignatureValidity ==
  (/\ fn = "verifyJWTSignature"
   /\ Truthy(token) /\ Truthy(publicKey)
   /\ jwtVerify(token, publicKey, VerifyOptions, env).message = MSG_CURVE) =>
    LET parts == Split(token)
        raw == Base64Decode(ReplaceUrlChars(parts[3]))
        half == Len(raw) \div 2
    IN
    /\ result.value = manuallyVerifyJWTSignature(token, publicKey, env).value
    /\ result.value =
         EcdsaVerify(publicKey, parts[1] \o <<".">> \o parts[2],
                     StripZeros(Slice(raw, 1, half)),
                     StripZeros(Slice(raw, half + 1, Len(raw))))

\* C9: with a P-256 key, a token signed by the matching private key is
\* accepted; a token signed by another P-256 key, a token whose signature
\* segment was replaced and a token signed with HS256 are refused.
C9_DefaultCurveVerification ==
  (fn = "verifyJWTSignature" /\ publicKey \in {KEY_TEST, KEY_OTHER}) =>
    LET other == IF publicKey = KEY_TEST THEN KEY_OTHER ELSE KEY_TEST
        payloads == {<<"p">>, <<"x">>, <<"n">>}
    IN
    /\ token \in {jwtSign(p, publicKey) : p \in payloads} => result.value = TRUE
    /\ token \in {jwtSign(p, other) : p \in payloads} => result.value = FALSE
    /\ token \in {Tok(<<"e">>, <<"p">>, TamperSig(SigOf(jwtSign(<<"p">>, publicKey)))),
                  invalidSignatureToken, wrongToken}
         => result.value = FALSE

\* TEST_PUBLIC_KEY refusing a token signed with HS256
C9_Witness ==
  /\ fn = "verifyJWTSignature"
  /\ publicKey = KEY_TEST
  /\ token = wrongToken
  /\ result.value = FALSE
  /\ Len(result.trace) = 1

\* C10: with an empty, null or undefined token or key, verifyJWTSignature
\* returns false and invokes neither the standard verification nor the
\* manual verifier.
C10_EmptyArgumentsRejectedAtOnce ==
  (/\ fn = "verifyJWTSignature"
   /\ \/ token \in {<<>>, NULL, UNDEFINED}
      \/ publicKey \in {<<>>, NULL, UNDEFINED}) =>
    /\ ~result.threw
    /\ result.value = FALSE
    /\ result.trace = <<>>

\* a well-signed token checked with an empty key
C10_Witness ==
  /\ fn = "verifyJWTSignature"
  /\ token = validToken
  /\ publicKey = <<>>
  /\ result.value = FALSE
  /\ result.trace = <<>>

\* C11: the result of verifyJWTSignature for a token and a key is the same at
\* every value of the clock, and the same as for a token of the same signer
\* without exp, nbf and iss; a token signed by the key's owner is accepted
\* with an exp in the past, an nbf in the future or any iss, through the
\* standard verification and through the manual verifier.
C11_ClaimsAndTimeNeverInspected ==
  fn = "verifyJWTSignature" =>
    /\ \A n \in 0..MaxNow :
         verifyJWTSignature(token, publicKey, [env EXCEPT !.now = n]).value = result.value
    /\ \A k \in {KEY_TEST, KEY_K1}, p \in {<<"x">>, <<"n">>, <<"i">>} :
         token = jwtSign(p, k) =>
           /\ result.value = verifyJWTSignature(jwtSign(<<"p">>, k), publicKey, env).value
           /\ publicKey = k => result.value = TRUE

\* a token whose exp has passed, accepted through the manual verifier
C11_Witness ==
  /\ fn = "verifyJWTSignature"
  /\ token = jwtSign(<<"x">>, KEY_K1)
  /\ publicKey = KEY_K1
  /\ now >= ClaimExp(<<"x">>)
  /\ \E i \in 1..Len(result.trace) : result.trace[i].fn = "manuallyVerifyJWTSignature"
  /\ result.value = TRUE

\* ------------------------------------------------------------------------
\* ieee1363ToDer on raw signatures of every size
\* ------------------------------------------------------------------------
\* the byte values the exhaustive signatures are made of
Bytes == {0, 1, 127, 128, 255}

\* longest r and s for which every combination of Bytes is converted
MaxShortLen == 2

\* longest r and s that are converted at all
MaxLongLen == 130

\* an integer of L bytes: z zero bytes, then b, then a filler
Half(L, z, b) == [i \in 1..L |-> IF i <= z THEN 0 ELSE IF i = z + 1 THEN b ELSE 85]

Halves(L) == {Half(L, z, b) : z \in {0, 1, 2, L} \cap (0..L), b \in {1, 128}}

ShortSignatures == UNION {[1..(2 * L) -> Bytes] : L \in 1..MaxShortLen}

LongSignatures == UNION {{r \o s : r \in Halves(L), s \in Halves(L)} : L \in 1..MaxLongLen}

Signatures == ShortSignatures \cup LongSignatures

InitDer ==
  /\ fn = "idle"
  /\ input = UNDEFINED /\ token = UNDEFINED /\ publicKey = UNDEFINED
  /\ publicKeyProd = UNDEFINED /\ publicKeyDev = UNDEFINED
  /\ isDevelopment = FALSE
  /\ signature \in Signatures
  /\ result = Ret(FALSE, <<>>)
  /\ now = 0
  /\ badDerThrows = FALSE
  /\ seen = NoCall
  /\ NoHost

\* const signatureDER = ieee1363ToDer(signatureIEEE)
CallIeee1363ToDer ==
  /\ fn = "idle"
  /\ fn' = "ieee1363ToDer"
  /\ result' = Ret(ieee1363ToDer(signature), <<>>)
  /\ UNCHANGED <<input, token, publicKey, publicKeyProd, publicKeyDev, isDevelopment,
                 signature, now, badDerThrows, seen, appVars>>

NextDer == CallIeee1363ToDer

SpecDer == InitDer /\ [][NextDer]_vars

\* the two halves of the raw signature
RawR == Slice(signature, 1, Len(signature) \div 2)
RawS == Slice(signature, Len(signature) \div 2 + 1, Len(signature))

\* a raw signature r || s of even length 2L, L >= 1, has been converted
Converted ==
  fn = "ieee1363ToDer" /\ Len(signature) >= 2 /\ Len(signature) % 2 = 0

\* C12: for every raw signature of even length 2L, L >= 1, the output is a
\* valid DER SEQUENCE: 0x30, a one-byte length equal to the number of bytes
\* that follow, and exactly two INTEGER elements, each 0x02, a one-byte length
\* equal to its value's byte count, and the value; the SEQUENCE length is the
\* sum of the two integer lengths and their tag and length bytes.
C12_OutputIsDerSequence ==
  Converted =>
    LET der == result.value
        d == DerDecodeSignature(der)
    IN  /\ ~result.threw
        /\ der[1] = 48
        /\ der[2] = Len(der) - 2
        /\ der[2] < 128
        /\ d.ok
        /\ Len(d.r) < 128 /\ Len(d.s) < 128
        /\ der = <<48, (2 + Len(d.r)) + (2 + Len(d.s))>>
                   \o <<2, Len(d.r)>> \o d.r \o <<2, Len(d.s)>> \o d.s

\* a decoded INTEGER without its sign-padding zero
DropSignPadding(v) == IF Len(v) > 1 /\ v[1] = 0 THEN Tail(v) ELSE v

\* v left-padded with zero bytes to L bytes
LeftPad(v, L) == [i \in 1..L |-> IF i <= L - Len(v) THEN 0 ELSE v[i - (L - Len(v))]]

\* C13: for every raw signature r || s of even length 2L, L >= 1, a DER
\* decoder reads from the output two INTEGERs whose unsigned values are those
\* of r and s, and left-padding each, without its sign-padding zero, to L
\* bytes gives r and s byte for byte.
C13_RoundTrip ==
  Converted =>
    LET L == Len(signature) \div 2
        d == DerDecodeSignature(result.value)
    IN  /\ d.ok
        /\ StripZeros(d.r) = StripZeros(RawR)
        /\ StripZeros(d.s) = StripZeros(RawS)
        /\ Len(DropSignPadding(d.r)) <= L /\ Len(DropSignPadding(d.s)) <= L
        /\ LeftPad(DropSignPadding(d.r), L) = RawR
        /\ LeftPad(DropSignPadding(d.s), L) = RawS

\* a reference DER encoder (X.690): definite lengths in the short form below
\* 128 and in the long form from 128 on, INTEGER contents in the fewest bytes
RefDerLength(n) ==
  IF n < 128 THEN <<n>>
  ELSE IF n < 256 THEN <<129, n>>
  ELSE <<130, n \div 256, n % 256>>

RefIntegerContents(v) ==
  LET m == StripZeros(v)
  IN  IF m = <<>> THEN <<0>> ELSE IF m[1] >= 128 THEN <<0>> \o m ELSE m

RefDerInteger(v) ==
  <<2>> \o RefDerLength(Len(RefIntegerContents(v))) \o RefIntegerContents(v)

RefDerSequence(contents) == <<48>> \o RefDerLength(Len(contents)) \o contents

\* C14: for every raw signature r || s with r and s of L bytes each,
\* 1 <= L <= 32, the conversion returns, and returns byte for byte what the
\* reference encoder gives for SEQUENCE { INTEGER r, INTEGER s }.
C14_MatchesReferenceEncoder ==
  (Converted /\ Len(signature) \div 2 <= CurveBytes("prime256v1")) =>
    /\ ~result.threw
    /\ result.value = RefDerSequence(RefDerInteger(RawR) \o RefDerInteger(RawS))

\* a 32 + 32 byte signature whose r needs the sign-padding zero and whose s
\* loses leading zero bytes
C14_Witness ==
  /\ Converted
  /\ Len(signature) \div 2 = CurveBytes("prime256v1")
  /\ RawR[1] >= 128
  /\ RawS[1] = 0 /\ RawS[2] = 0
  /\ Len(result.value) = 2 + (2 + Len(RawR) + 1) + (2 + Len(RawS) - 2)
  /\ result.value = RefDerSequence(RefDerInteger(RawR) \o RefDerInteger(RawS))

\* ------------------------------------------------------------------------
\* extractJWTFromInput on arbitrary text
\* ------------------------------------------------------------------------
\* longest text for which every combination of ExtractChars is an input
MaxInputLen == 7

\* a character of the segment alphabet, the delimiter and a character outside
ExtractChars == {"a", ".", " "}

ShortTexts == UNION {[1..n -> ExtractChars] : n \in 0..MaxInputLen}

FourParts ==
  <<"p","a","r","t","1",".","p","a","r","t","2",".","p","a","r","t","3",".","p","a","r","t","4">>

TwoParts ==
  <<"h","e","a","d","e","r",".","p","a","y","l","o","a","d">>

BrokenSegment ==
  <<"h","e","a","d","e","r",".","p","a","y"," ","l","o","a","d",".","s","i","g","n","a","t","u","r","e">>

JustPlainText ==
  <<"T","h","i","s"," ","i","s"," ","j","u","s","t"," ","p","l","a","i","n"," ","t","e","x","t">>

TwoTokens ==
  <<"F","i","r","s","t",":"," ","a","B","3",".","c","-","d",".","e","_","f"," ","S","e","c","o","n","d",":"," ","g",".","h",".","i">>

TokenFirst ==
  <<"a","B","3",".","c","-","d",".","e","_","f"," ","s","o","m","e"," ","a","d","d","i","t","i","o","n","a","l"," ","t","e","x","t">>

TokenLast ==
  <<"H","e","r","e"," ","i","s"," ","m","y"," ","t","o","k","e","n",":"," ","x",".","y",".","z">>

FiveParts ==
  <<"a",".","b",".","c",".","d",".","e">>

LeadingDot ==
  <<".","a",".","b",".","c">>

EmptySegment ==
  <<"a",".",".","b",".","c",".","d">>

Punctuated ==
  <<"x","=","a",".","b",".","c","!">>

SlashJoined ==
  <<"a",".","b",".","c","/","d",".","e",".","f">>

NamedTexts ==
  {FourParts, TwoParts, BrokenSegment, JustPlainText, TwoTokens, TokenFirst,
   TokenLast, FiveParts, LeadingDot, EmptySegment, Punctuated, SlashJoined}

ExtractInputs == ShortTexts \cup NamedTexts \cup {NULL, UNDEFINED, NUMBER}

InitExtract ==
  /\ fn = "idle"
  /\ input \in ExtractInputs
  /\ token = UNDEFINED /\ publicKey = UNDEFINED
  /\ publicKeyProd = UNDEFINED /\ publicKeyDev = UNDEFINED
  /\ isDevelopment = FALSE
  /\ signature = <<>>
  /\ result = Ret(FALSE, <<>>)
  /\ now = 0
  /\ badDerThrows = FALSE
  /\ seen = NoCall
  /\ NoHost

\* extractJWTFromInput(input)
ExtractFromInput ==
  /\ fn = "idle"
  /\ fn' = "extractJWTFromInput"
  /\ result' = extractJWTFromInputCall(input)
  /\ UNCHANGED <<input, token, publicKey, publicKeyProd, publicKeyDev, isDevelopment,
                 signature, now, badDerThrows, seen, appVars>>

NextExtract == ExtractFromInput

SpecExtract == InitExtract /\ [][NextExtract]_vars

\* the three-segment token shape: three non-empty runs of the segment
\* alphabet joined by two '.'
IsTokenShape(x) ==
  LET dots == {i \in 1..Len(x) : x[i] = "."}
  IN  /\ Cardinality(dots) = 2
      /\ \A i \in (1..Len(x)) \ dots : x[i] \in SegChars
      /\ 1 \notin dots /\ Len(x) \notin dots
      /\ \A i \in dots : i + 1 \notin dots

\* the places <<i, j>> where a substring of s has the token shape
ShapedAt(s) ==
  {p \in (1..Len(s)) \X (1..Len(s)) :
     p[1] <= p[2] /\ IsTokenShape(Slice(s, p[1], p[2]))}

\* C15: on a string, extractJWTFromInput returns null exactly when no
\* substring has the token shape; otherwise it returns a substring with the
\* shape that starts at the leftmost place where one starts, and that has no
\* character of the segment alphabet directly before or directly after it.
C15_LeftmostMaximalToken ==
  (fn = "extractJWTFromInput" /\ IsString(input)) =>
    LET S == ShapedAt(input)
        r == result.value
    IN  /\ (r = NULL) = (S = {})
        /\ S # {} =>
             \E p \in S :
               /\ r = Slice(input, p[1], p[2])
               /\ \A q \in S : p[1] <= q[1]
               /\ p[1] = 1 \/ input[p[1] - 1] \notin SegChars
               /\ p[2] = Len(input) \/ input[p[2] + 1] \notin SegChars

\* the first of two tokens, taken out of the text around it
C15_Witness ==
  /\ fn = "extractJWTFromInput"
  /\ input = TwoTokens
  /\ result.value = <<"a","B","3",".","c","-","d",".","e","_","f">>

\* the number of '.' in a string
Dots(x) == Cardinality({i \in 1..Len(x) : x[i] = "."})

\* C16: when the input consists of four or more '.'-separated segments, each
\* a non-empty run of the segment alphabet, the result is the first three
\* joined by '.'; every result has exactly two '.'.
C16_FirstThreeSegments ==
  (fn = "extractJWTFromInput" /\ IsString(input)) =>
    LET parts == Split(input)
        r == result.value
    IN  /\ r # NULL => Dots(r) = 2
        /\ (/\ Len(parts) >= 4
            /\ \A k \in 1..Len(parts) : parts[k] # <<>> /\ IsSegment(parts[k]))
             => r = parts[1] \o <<".">> \o parts[2] \o <<".">> \o parts[3]

\* 'part1.part2.part3.part4' gives 'part1.part2.part3'
C16_Witness ==
  /\ fn = "extractJWTFromInput"
  /\ input = FourParts
  /\ result.value = SubSeq(FourParts, 1, 17)
  /\ result.value # input

\* C17: extractJWTFromInput raises nothing; it returns null for the empty
\* string, null, undefined and a number, for a text with fewer than two '.',
\* and for a text with two '.' whose middle segment is empty or holds a
\* character outside the segment alphabet.
C17_NoMatchIsNull ==
  fn = "extractJWTFromInput" =>
    /\ ~result.threw
    /\ input \in {<<>>, NULL, UNDEFINED, NUMBER, TwoParts, BrokenSegment, JustPlainText}
         => result.value = NULL
    /\ (IsString(input) /\ Dots(input) < 2) => result.value = NULL
    /\ (IsString(input) /\ Dots(input) = 2
          /\ (Split(input)[2] = <<>> \/ ~IsSegment(Split(input)[2])))
         => result.value = NULL

\* a number handed in as the input
C17_Witness ==
  /\ fn = "extractJWTFromInput"
  /\ input = NUMBER
  /\ ~result.threw
  /\ result.value = NULL

\* ------------------------------------------------------------------------
\* Calls compared with an earlier call
\* ------------------------------------------------------------------------
\* the arguments of the call in progress
Args == <<input, token, publicKey, publicKeyProd, publicKeyDev, isDevelopment>>

\* the calls that are kept for comparison
Probe ==
  \/ fn = "extractJWTFromInput" /\ input = InText(validToken)
  \/ /\ fn = "verifyJWTSignature"
     /\ <<token, publicKey>> \in {<<jwtSign(<<"x">>, KEY_TEST), KEY_TEST>>,
                                  <<jwtSign(<<"n">>, KEY_K1), KEY_K1>>}
  \/ /\ fn = "extractAndVerifyJWT"
     /\ input = InText(jwtSign(<<"x">>, KEY_TEST))
     /\ publicKeyProd = KEY_K1 /\ publicKeyDev = KEY_TEST /\ isDevelopment

\* the call returns and the observer keeps its arguments and its outcome
Remember ==
  /\ seen = NoCall
  /\ Probe
  /\ seen' = [fn |-> fn, args |-> Args, result |-> result, now |-> now, others |-> FALSE]
  /\ EndCall

\* the call returns; the observer notes that a call followed the kept one
ReturnAfter ==
  /\ seen' = IF seen = NoCall THEN seen ELSE [seen EXCEPT !.others = TRUE]
  /\ EndCall

NextCalls ==
  CallExtract \/ CallVerify \/ CallExtractAndVerify \/ Tick \/ Remember \/ ReturnAfter

SpecCalls == Init /\ [][NextCalls]_vars

\* C18: a call returns what an earlier call with the same arguments
\* returned, whatever calls were made and however far the clock moved in
\* between, and between calls nothing of a call is left.
C18_CallsAreIndependent ==
  /\ (fn # "idle" /\ seen.fn = fn /\ seen.args = Args) => result = seen.result
  /\ fn = "idle" => (NoArgs /\ result = Ret(FALSE, <<>>))

\* the same verification of a token with an exp, before and after the exp,
\* with other calls in between
C18_Witness ==
  /\ fn = "verifyJWTSignature"
  /\ seen.fn = fn /\ seen.args = Args
  /\ token = jwtSign(<<"x">>, KEY_TEST)
  /\ seen.now < ClaimExp(<<"x">>) /\ now >= ClaimExp(<<"x">>)
  /\ seen.others
  /\ result.value = TRUE

\* ------------------------------------------------------------------------
\* The host application: middleware and routes (app/src/index.ts)
\* ------------------------------------------------------------------------
\* Paths, response bodies and the session user are opaque names.

Ev(call, arg) == [call |-> call, arg |-> arg]

\* res.status(code).send(body) and res.redirect(location)
Status(code, body) == [status |-> code, body |-> body, location |-> UNDEFINED]
Redirect(location) == [status |-> 302, body |-> UNDEFINED, location |-> location]

\* variant: next() is called without `return`
ensureAuthenticated_noReturn(r) ==
  LET asked == <<Ev("req.isAuthenticated", UNDEFINED)>>
      denied == <<Ev("console.log", r.path), Ev("res.redirect", <<"/auth/google">>)>>
  IN  IF Truthy(r.isAuthenticated)
      THEN asked \o <<Ev("next", UNDEFINED)>> \o denied
      ELSE asked \o denied

\* the calls ensureAuthenticated(req, res, next) makes, in order
ensureAuthenticated(r) ==
  LET asked == <<Ev("req.isAuthenticated", UNDEFINED)>>
  IN  IF Truthy(r.isAuthenticated)
      THEN asked \o <<Ev("next", UNDEFINED)>>
      ELSE asked \o <<Ev("console.log", r.path), Ev("res.redirect", <<"/auth/google">>)>>

NextCalled(mw) == \E i \in 1..Len(mw) : mw[i].call = "next"

\* the responses the res.redirect calls of a middleware send
RECURSIVE Responses(_)
Responses(mw) ==
  IF mw = <<>> THEN <<>>
  ELSE (IF Head(mw).call = "res.redirect" THEN <<Redirect(Head(mw).arg)>> ELSE <<>>)
         \o Responses(Tail(mw))

\* what the synchronous part of a handler leaves: the responses sent, the
\* calls made, and the callback it waits for ("responded" when none)
Out(rs, ef, pc) == [res |-> rs, effects |-> ef, pc |-> pc]

\* app.METHOD(path, middleware, handler): the handler runs when the
\* middleware called next()
WithMiddleware(mw, h) ==
  IF NextCalled(mw)
  THEN Out(Responses(mw) \o h.res, mw \o h.effects, h.pc)
  ELSE Out(Responses(mw), mw, "responded")

MaxEntryLength == 5000

\* entry.length > 5000: the number of characters of a text, the number of
\* elements of an array, undefined for a number
EntryTooLong(entry) ==
  IF IsString(entry) THEN Len(entry) > MaxEntryLength
  ELSE IF entry = ARRAY THEN 1 > MaxEntryLength
  ELSE FALSE

\* a text one character longer than the limit
TooLongEntry == [i \in 1..(MaxEntryLength + 1) |-> "a"]

\* `${entry}`: a text is itself, the number is its digits, the array is its
\* one element
TemplateText(entry) ==
  IF entry = NUMBER THEN <<"1", "2", "3">>
  ELSE IF entry = ARRAY THEN TooLongEntry
  ELSE entry

\* new Date().toISOString(), a text without a quote
IsoDate == <<"2", "0", "2", "5">>

\* the text of vulnerableQuery after `VALUES ('`
InsertValues(entry, isVerifiedJWT) ==
  TemplateText(entry) \o <<"'", ",", " ", "'">> \o IsoDate
    \o <<"'", ",", " ", IF isVerifiedJWT = 1 THEN "1" ELSE "0", ")">>

\* ---- what the database makes of the INSERT statement ----
Digits == <<"0", "1", "2", "3", "4", "5", "6", "7", "8", "9">>

Least(S) == CHOOSE i \in S : \A j \in S : i <= j

\* the character at position i, "" past the end
At(t, i) == IF i <= Len(t) THEN t[i] ELSE ""

\* the first position from `from` on that holds no blank
SkipBlanks(t, from) ==
  LET rest == {i \in from..Len(t) : t[i] # " "}
  IN  IF rest = {} THEN Len(t) + 1 ELSE Least(rest)

\* the closing quote of the string literal whose text begins at `from`; two
\* quotes in a row stand for a quote inside the literal; 0 when the literal
\* is not closed
RECURSIVE LiteralEnd(_, _)
LiteralEnd(t, from) ==
  LET quotes == {i \in from..Len(t) : t[i] = "'"}
  IN  IF quotes = {} THEN 0
      ELSE Let(Least(quotes), LAMBDA q :
             IF At(t, q + 1) = "'" THEN LiteralEnd(t, q + 2) ELSE q)

\* the value of a literal's text: each doubled quote is one quote
RECURSIVE Unquote(_)
Unquote(lit) ==
  LET quotes == {i \in 1..Len(lit) : lit[i] = "'"}
  IN  IF quotes = {} THEN lit
      ELSE Let(Least(quotes), LAMBDA q :
             SubSeq(lit, 1, q) \o Unquote(SubSeq(lit, q + 2, Len(lit))))

\* the last position of the run of digits that begins at `from`, from - 1
\* when there is none
DigitsEnd(t, from) ==
  LET stops == {i \in from..(Len(t) + 1) : At(t, i) \notin Range(Digits)}
  IN  Least(stops) - 1

RECURSIVE IntegerValue(_)
IntegerValue(ds) ==
  IF ds = <<>> THEN 0
  ELSE 10 * IntegerValue(SubSeq(ds, 1, Len(ds) - 1))
         + (CHOOSE d \in 0..9 : Digits[d + 1] = ds[Len(ds)])

SqlError == [err |-> TRUE, row |-> <<>>]

\* db.run of INSERT INTO entries (entry, date, isVerifiedJWT) VALUES ('...:
\* the first statement of the text is compiled and run, whatever follows it
\* is ignored; `values` is the text after the first opening quote
SqlInsert(values) ==
  Let(LiteralEnd(values, 1), LAMBDA e1 :
  IF e1 = 0 THEN SqlError ELSE
  Let(SkipBlanks(values, e1 + 1), LAMBDA c1 :
  IF At(values, c1) # "," THEN SqlError ELSE
  Let(SkipBlanks(values, c1 + 1), LAMBDA q2 :
  IF At(values, q2) # "'" THEN SqlError ELSE
  Let(LiteralEnd(values, q2 + 1), LAMBDA e2 :
  IF e2 = 0 THEN SqlError ELSE
  Let(SkipBlanks(values, e2 + 1), LAMBDA c2 :
  IF At(values, c2) # "," THEN SqlError ELSE
  Let(SkipBlanks(values, c2 + 1), LAMBDA d1 :
  Let(DigitsEnd(values, d1), LAMBDA d2 :
  IF d2 < d1 THEN SqlError ELSE
  Let(SkipBlanks(values, d2 + 1), LAMBDA close :
  IF At(values, close) # ")" THEN SqlError ELSE
  Let(SkipBlanks(values, close + 1), LAMBDA after :
  IF \/ after > Len(values)
     \/ At(values, after) = ";"
     \/ At(values, after) = "-" /\ At(values, after + 1) = "-"
  THEN [err |-> FALSE,
        row |-> <<Unquote(SubSeq(values, 1, e1 - 1)),
                  Unquote(SubSeq(values, q2 + 1, e2 - 1)),
                  IntegerValue(SubSeq(values, d1, d2))>>]
  ELSE SqlError)))))))))

\* variant: the flag says that a token was found
postEntry_flagFromToken(r, kp, kd, d, e) ==
  LET entry == r.entry IN
  IF ~Truthy(entry)
  THEN Out(<<Status(400, <<"Entry text is required">>)>>, <<>>, "responded")
  ELSE IF EntryTooLong(entry)
  THEN Out(<<Status(400, <<"Entry text is too long (max 5000 characters)">>)>>,
           <<>>, "responded")
  ELSE Let(extractAndVerifyJWT(entry, kp, kd, d, e), LAMBDA jwtVerification :
         IF jwtVerification.threw
         THEN Out(<<Status(500, <<"Internal Server Error">>)>>,
                  <<Ev("extractAndVerifyJWT", entry)>>, "responded")
         ELSE LET isVerifiedJWT == IF Truthy(jwtVerification.value.token) THEN 1 ELSE 0
              IN  Out(<<>>,
                      <<Ev("extractAndVerifyJWT", entry),
                        Ev("db.run", InsertValues(entry, isVerifiedJWT))>>,
                      "db.run"))

\* the body of app.post('/insecure') and of app.post('/secure') up to db.run
postEntry(r, kp, kd, d, e) ==
  LET entry == r.entry IN
  IF ~Truthy(entry)
  THEN Out(<<Status(400, <<"Entry text is required">>)>>, <<>>, "responded")
  ELSE IF EntryTooLong(entry)
  THEN Out(<<Status(400, <<"Entry text is too long (max 5000 characters)">>)>>,
           <<>>, "responded")
  ELSE Let(extractAndVerifyJWT(entry, kp, kd, d, e), LAMBDA jwtVerification :
         IF jwtVerification.threw
         THEN Out(<<Status(500, <<"Internal Server Error">>)>>,
                  <<Ev("extractAndVerifyJWT", entry)>>, "responded")
         ELSE LET isVerifiedJWT == IF jwtVerification.value.isValid THEN 1 ELSE 0
              IN  Out(<<>>,
                      <<Ev("extractAndVerifyJWT", entry),
                        Ev("db.run", InsertValues(entry, isVerifiedJWT))>>,
                      "db.run"))

\* the body of app.get('/insecure') and of app.get('/secure') up to db.all
getEntries(r) == Out(<<>>, <<Ev("db.all", UNDEFINED)>>, "db.all")

\* the user the OAuth callback stores in the session
SessionUser == <<"user@example.com">>

\* variant: POST /secure is registered without the middleware
Dispatch_postSecureOpen(r, kp, kd, d, e) ==
  CASE r.method = "GET" /\ r.path = <<"/health">> ->
         Out(<<Status(200, <<"healthy">>)>>, <<>>, "responded")
    [] r.method = "GET" /\ r.path = <<"/auth/google">> ->
         Out(<<Redirect(<<"https://accounts.google.com">>)>>,
             <<Ev("passport.authenticate", UNDEFINED)>>, "responded")
    [] r.method = "GET" /\ r.path = <<"/auth/google/callback">> ->
         IF Truthy(r.oauth)
         THEN Out(<<Redirect(<<"/secure">>)>>, <<Ev("req.login", SessionUser)>>, "responded")
         ELSE Out(<<Redirect(<<"/login-failed">>)>>,
                  <<Ev("passport.authenticate", UNDEFINED)>>, "responded")
    [] r.method = "GET" /\ r.path = <<"/logout">> ->
         Out(<<>>, <<Ev("req.logout", UNDEFINED)>>, "req.logout")
    [] r.method = "GET" /\ r.path = <<"/login-failed">> ->
         Out(<<Status(401, <<"Authentication Failed">>)>>, <<>>, "responded")
    [] r.method = "GET" /\ r.path = <<"/insecure">> -> getEntries(r)
    [] r.method = "POST" /\ r.path = <<"/insecure">> -> postEntry(r, kp, kd, d, e)
    [] r.method = "GET" /\ r.path = <<"/secure">> ->
         WithMiddleware(ensureAuthenticated(r), getEntries(r))
    [] r.method = "POST" /\ r.path = <<"/secure">> -> postEntry(r, kp, kd, d, e)
    [] r.method = "GET" /\ r.path = <<"/">> ->
         Out(<<Status(404, <<"{}">>)>>, <<>>, "responded")
    [] OTHER -> Out(<<Status(404, <<"Cannot ", r.method>>)>>, <<>>, "responded")

\* the route table in the order of registration, and the synchronous part of
\* the first route that matches the request
Dispatch(r, kp, kd, d, e) ==
  CASE r.method = "GET" /\ r.path = <<"/health">> ->
         Out(<<Status(200, <<"healthy">>)>>, <<>>, "responded")
    [] r.method = "GET" /\ r.path = <<"/auth/google">> ->
         Out(<<Redirect(<<"https://accounts.google.com">>)>>,
             <<Ev("passport.authenticate", UNDEFINED)>>, "responded")
    [] r.method = "GET" /\ r.path = <<"/auth/google/callback">> ->
         IF Truthy(r.oauth)
         THEN Out(<<Redirect(<<"/secure">>)>>, <<Ev("req.login", SessionUser)>>, "responded")
         ELSE Out(<<Redirect(<<"/login-failed">>)>>,
                  <<Ev("passport.authenticate", UNDEFINED)>>, "responded")
    [] r.method = "GET" /\ r.path = <<"/logout">> ->
         Out(<<>>, <<Ev("req.logout", UNDEFINED)>>, "req.logout")
    [] r.method = "GET" /\ r.path = <<"/login-failed">> ->
         Out(<<Status(401, <<"Authentication Failed">>)>>, <<>>, "responded")
    [] r.method = "GET" /\ r.path = <<"/insecure">> -> getEntries(r)
    [] r.method = "POST" /\ r.path = <<"/insecure">> -> postEntry(r, kp, kd, d, e)
    [] r.method = "GET" /\ r.path = <<"/secure">> ->
         WithMiddleware(ensureAuthenticated(r), getEntries(r))
    [] r.method = "POST" /\ r.path = <<"/secure">> ->
         WithMiddleware(ensureAuthenticated(r), postEntry(r, kp, kd, d, e))
    [] r.method = "GET" /\ r.path = <<"/">> ->
         Out(<<Status(404, <<"{}">>)>>, <<>>, "responded")
    [] OTHER -> Out(<<Status(404, <<"Cannot ", r.method>>)>>, <<>>, "responded")

\* most rows the entries table holds
MaxEntries == 2

Methods == {"GET", "POST"}

Paths ==
  {<<"/health">>, <<"/auth/google">>, <<"/auth/google/callback">>, <<"/logout">>,
   <<"/login-failed">>, <<"/insecure">>, <<"/secure">>, <<"/">>, <<"/admin">>}

\* entries with quote characters: one that closes the literal and supplies
\* the remaining values itself, one whose quote leaves a statement that does
\* not compile, and one with a doubled quote
Injection ==
  <<"a", "'", ",", " ", "'", "d", "'", ",", " ", "1", ")", " ", "-", "-">>
Apostrophe == <<"i", "t", "'", "s">>
QuotedQuote == <<"i", "t", "'", "'", "s">>

\* req.body.entry
EntryArgs ==
  {UNDEFINED, <<>>, PlainText, InText(validToken), InText(prodtoken), NUMBER, TooLongEntry,
   ARRAY, JS_ZERO, Injection, Apostrophe, QuotedQuote}

\* what the mocked req.isAuthenticated() of the middleware tests returns
AuthValues == {JS_TRUE, JS_FALSE, NULL, UNDEFINED, JS_ZERO, <<>>, NUMBER, <<"y","e","s">>}

MockPaths == {<<"/secure">>, <<"/admin">>, <<"/api/data">>, UNDEFINED}

Request(m, p, a, entry, oauth) ==
  [method |-> m, path |-> p, isAuthenticated |-> a, entry |-> entry, oauth |-> oauth]

\* passport: req.isAuthenticated() is true when the session holds a user
IsAuthenticated == IF session # UNDEFINED THEN JS_TRUE ELSE JS_FALSE

\* the values of NODE_ENV: unset, the one that names production, and others
NodeEnvs ==
  {UNDEFINED, <<"production">>, <<"development">>, <<"test">>, <<"Production">>}

\* variant: development mode needs NODE_ENV to name it
IS_DEVELOPMENT_named(NODE_ENV) == NODE_ENV = <<"development">>

\* process.env.NODE_ENV !== 'production'
IS_DEVELOPMENT(NODE_ENV) == NODE_ENV # <<"production">>

InitApp ==
  /\ fn = "idle"
  /\ input = UNDEFINED /\ token = UNDEFINED /\ publicKey = UNDEFINED
  /\ publicKeyProd = KEY_K1
  /\ publicKeyDev \in {KEY_TEST, <<>>}
  /\ nodeEnv \in NodeEnvs
  /\ isDevelopment = IS_DEVELOPMENT(nodeEnv)
  /\ signature = <<>>
  /\ result = Ret(FALSE, <<>>)
  /\ now = 0
  /\ badDerThrows = FALSE
  /\ seen = NoCall
  /\ NoRequest

jwtVars == <<input, token, publicKey, publicKeyProd, publicKeyDev, isDevelopment,
             signature, result, now, badDerThrows, seen, nodeEnv>>

\* a request arrives and runs up to its response or its first callback
Receive ==
  /\ fn = "idle"
  /\ \E m \in Methods, p \in Paths, entry \in EntryArgs, oauth \in {JS_TRUE, JS_FALSE} :
       /\ m = "GET" => entry = UNDEFINED
       /\ p # <<"/auth/google/callback">> => oauth = JS_FALSE
       /\ m = "POST" => Len(entries) < MaxEntries
       /\ LET r == Request(m, p, IsAuthenticated, entry, oauth) IN
          \E out \in {Dispatch(r, publicKeyProd, publicKeyDev, isDevelopment, env)} :
            /\ req' = r
            /\ res' = out.res
            /\ effects' = out.effects
            /\ fn' = out.pc
            /\ session' = IF \E i \in 1..Len(out.effects) : out.effects[i].call = "req.login"
                          THEN SessionUser ELSE session
  /\ UNCHANGED <<jwtVars, entries>>

\* the callback of db.all
DbAllDone ==
  /\ fn = "db.all"
  /\ \E err \in BOOLEAN :
       res' = res \o <<IF err THEN Status(500, <<"Internal Server Error">>)
                       ELSE Status(200, entries)>>
  /\ fn' = "responded"
  /\ UNCHANGED <<jwtVars, req, effects, entries, session>>

\* db.run and its callback: the statement fails (it does not compile, or
\* the database reports an error) or inserts its row; after an insert the
\* callback logs entry.substring(0, 50), which raises a TypeError for an
\* entry that is no text, and nothing catches it
DbRunDone ==
  /\ fn = "db.run"
  /\ \E ioError \in BOOLEAN, run \in {SqlInsert(effects[Len(effects)].arg)} :
       IF ioError \/ run.err
       THEN /\ res' = res \o <<Status(500, <<"Internal Server Error">>)>>
            /\ entries' = entries
            /\ fn' = "responded"
       ELSE /\ entries' = Append(entries, run.row)
            /\ IF IsString(req.entry)
               THEN /\ res' = res \o <<Redirect(req.path)>>
                    /\ fn' = "responded"
               ELSE /\ res' = res
                    /\ fn' = "uncaughtException"
  /\ UNCHANGED <<jwtVars, req, effects, session>>

\* the callback of req.logout
LogoutDone ==
  /\ fn = "req.logout"
  /\ \E err \in BOOLEAN :
       IF err
       THEN /\ res' = res \o <<Status(500, <<"Error logging out">>)>>
            /\ effects' = effects
            /\ session' = session
            /\ fn' = "responded"
       ELSE /\ res' = res
            /\ effects' = effects \o <<Ev("req.session.destroy", UNDEFINED)>>
            /\ session' = UNDEFINED
            /\ fn' = "session.destroy"
  /\ UNCHANGED <<jwtVars, req, entries>>

\* the callback of req.session.destroy
DestroyDone ==
  /\ fn = "session.destroy"
  /\ \E err \in BOOLEAN :
       effects' = effects \o (IF err THEN <<Ev("console.error", UNDEFINED)>> ELSE <<>>)
                    \o <<Ev("res.clearCookie", <<"connect.sid">>)>>
  /\ res' = res \o <<Redirect(<<"/insecure">>)>>
  /\ fn' = "responded"
  /\ UNCHANGED <<jwtVars, req, entries, session>>

\* ensureAuthenticated called on a request object of its own, as the unit
\* tests call it
CallEnsureAuthenticated ==
  /\ fn = "idle"
  /\ \E a \in AuthValues, p \in MockPaths :
       LET r == Request("GET", p, a, UNDEFINED, JS_FALSE) IN
       /\ req' = r
       /\ effects' = ensureAuthenticated(r)
       /\ res' = Responses(ensureAuthenticated(r))
  /\ fn' = "ensureAuthenticated"
  /\ UNCHANGED <<jwtVars, entries, session>>

\* the request is over
Finish ==
  /\ fn \in {"responded", "ensureAuthenticated"}
  /\ fn' = "idle"
  /\ req' = UNDEFINED
  /\ res' = <<>>
  /\ effects' = <<>>
  /\ UNCHANGED <<jwtVars, entries, session>>

NextApp ==
  Receive \/ DbAllDone \/ DbRunDone \/ LogoutDone \/ DestroyDone
    \/ CallEnsureAuthenticated \/ Finish

SpecApp == InitApp /\ [][NextApp]_vars

\* how often a call was made while handling the request
Calls(c) == Cardinality({i \in 1..Len(effects) : effects[i].call = c})

\* C19: whenever ensureAuthenticated runs, on a request object of its own or
\* in front of a /secure route, it asks req.isAuthenticated() once, first,
\* and then either calls next() once or calls res.redirect('/auth/google')
\* once, never both and never neither: next() when the answer is truthy, the
\* redirect when it is false, null, undefined, 0 or '', also when req.path
\* is missing.
C19_ExactlyOneOfNextAndRedirect ==
  (fn = "ensureAuthenticated"
     \/ (fn # "idle" /\ req.path = <<"/secure">> /\ req.method \in {"GET", "POST"})) =>
    LET falsy == req.isAuthenticated \in {JS_FALSE, NULL, UNDEFINED, JS_ZERO, <<>>}
    IN  /\ Calls("req.isAuthenticated") = 1
        /\ effects[1].call = "req.isAuthenticated"
        /\ Calls("next") + Calls("res.redirect") = 1
        /\ (Calls("next") = 1) = ~falsy
        /\ \A i \in 1..Len(effects) :
             effects[i].call = "res.redirect" => effects[i].arg = <<"/auth/google">>
        /\ falsy => res = <<Redirect(<<"/auth/google">>)>>
        /\ (fn = "ensureAuthenticated" /\ ~falsy) => res = <<>>

\* the middleware on a request without a path whose isAuthenticated()
\* returned 0
C19_Witness ==
  /\ fn = "ensureAuthenticated"
  /\ req.isAuthenticated = JS_ZERO
  /\ req.path = UNDEFINED
  /\ Calls("next") = 0
  /\ res = <<Redirect(<<"/auth/google">>)>>

\* C20: a GET or POST to /secure from a session without a user is answered
\* with the redirect to /auth/google alone; the route handler is not
\* reached: no next(), no JWT verification, no db.all and no db.run, and no
\* callback is left that could write to the table.
C20_SecureRequiresAuthentication ==
  (/\ fn \notin {"idle", "ensureAuthenticated"}
   /\ req.path = <<"/secure">> /\ req.method \in {"GET", "POST"}
   /\ req.isAuthenticated = JS_FALSE) =>
    /\ res = <<Redirect(<<"/auth/google">>)>>
    /\ fn = "responded"
    /\ \A i \in 1..Len(effects) :
         effects[i].call \notin {"next", "extractAndVerifyJWT", "db.all", "db.run"}

\* a POST to /secure without a session, carrying a token that verifies
\* under the production key
C20_Witness ==
  /\ fn = "responded"
  /\ session = UNDEFINED
  /\ req.method = "POST" /\ req.path = <<"/secure">>
  /\ req.entry = InText(prodtoken)
  /\ res = <<Redirect(<<"/auth/google">>)>>
  /\ Len(entries) = 1

\* the handler of a POST to /insecure or /secure has run for the request
PostHandled ==
  /\ fn \notin {"idle", "ensureAuthenticated"}
  /\ req.method = "POST"
  /\ \/ req.path = <<"/insecure">>
     \/ req.path = <<"/secure">> /\ Calls("next") = 1

\* C21: in POST /insecure and POST /secure, extractAndVerifyJWT is called
\* only for an entry that is a non-empty text of at most 5000 characters;
\* a missing or empty entry and an entry longer than 5000 characters are
\* answered with status 400 alone, without verification and without insert.
C21_VerifiedOnlyWithinBounds ==
  PostHandled =>
    /\ Calls("extractAndVerifyJWT") > 0 =>
         /\ IsString(req.entry)
         /\ Len(req.entry) \in 1..MaxEntryLength
    /\ (~Truthy(req.entry) \/ (IsString(req.entry) /\ Len(req.entry) > MaxEntryLength)) =>
         /\ fn = "responded"
         /\ Len(res) = 1 /\ res[1].status = 400
         /\ Calls("extractAndVerifyJWT") = 0 /\ Calls("db.run") = 0

\* ------------------------------------------------------------------------
\* The INTEGER elements of the converted signature
\* ------------------------------------------------------------------------
\* the value bytes of the first and of the second INTEGER of the output, read
\* the way the output is laid out: 30 len 02 len value 02 len value
DerValueR(der) == SubSeq(der, 5, 4 + der[4])
DerValueS(der) ==
  LET at == 5 + der[4]
  IN  SubSeq(der, at + 2, at + 1 + der[at + 1])

ValueR == DerValueR(result.value)
ValueS == DerValueS(result.value)

\* the number of leading zero bytes of int
LeadingZeros(int) ==
  Cardinality({i \in 1..Len(int) : \A j \in 1..i : int[j] = 0})

\* value is the minimal non-negative encoding of the L-byte integer int
MinimalFor(value, int) ==
  LET L == Len(int)
      z == LeadingZeros(int)
  IN  /\ Len(value) \in 1..(L + 1)
      /\ value[1] < 128
      /\ (Len(value) > 1 /\ value[1] = 0) => value[2] >= 128
      /\ (Len(value) = L + 1) = (int[1] >= 128)
      /\ z = L => value = <<0>>
      /\ (z < L /\ int[z + 1] < 128) => value = SubSeq(int, z + 1, L)
      /\ (z < L /\ int[z + 1] >= 128) => value = <<0>> \o SubSeq(int, z + 1, L)

\* C23: each of the two INTEGERs that ieee1363ToDer emits for L-byte halves,
\* L >= 1, is non-negative and minimal: 1 to L + 1 value bytes, first byte
\* below 0x80, a leading 0x00 only in front of a byte with the high bit set,
\* L + 1 bytes exactly when the half begins with a byte that has the high bit
\* set, every other leading zero byte of the half removed, and 02 01 00 for a
\* half that is all zero.
C23_IntegersAreMinimal ==
  Converted =>
    /\ result.value[3] = 2
    /\ result.value[5 + result.value[4]] = 2
    /\ Len(result.value) = 4 + Len(ValueR) + 2 + Len(ValueS)
    /\ MinimalFor(ValueR, RawR)
    /\ MinimalFor(ValueS, RawS)
    /\ (\A i \in 1..Len(RawR) : RawR[i] = 0) => SubSeq(result.value, 3, 5) = <<2, 1, 0>>

\* a signature of two 66-byte halves, r all zero and s beginning with 0x80
C23_Witness ==
  /\ Converted
  /\ Len(RawR) = 66
  /\ \A i \in 1..66 : RawR[i] = 0
  /\ RawS[1] = 128
  /\ ValueR = <<0>>
  /\ Len(ValueS) = 67 /\ ValueS[1] = 0 /\ ValueS[2] = 128

\* ------------------------------------------------------------------------
\* The data the fallback path verifies
\* ------------------------------------------------------------------------
\* C24: in a call of verifyJWTSignature the manual verifier is called, after
\* the standard verification, with the token and the key of the call; the
\* message it gives to the verifier is the token's first segment, '.', and
\* its second segment; the raw signature it converts is the base64url
\* decoding of the third segment, and the two integers of the converted
\* signature are the two halves of it; the key it verifies with is the key
\* of the call.
C24_FallbackChecksSameData ==
  fn = "verifyJWTSignature" =>
    \A i \in 1..Len(result.trace) :
      /\ result.trace[i].fn = "manuallyVerifyJWTSignature" =>
           /\ result.trace[i].token = token
           /\ result.trace[i].key = publicKey
           /\ \E j \in 1..(i - 1) : result.trace[j] = Event("jwt.verify", token, publicKey)
      /\ result.trace[i].fn = "verifier.verify" =>
           LET e == result.trace[i]
               parts == Split(token)
               raw == Base64Decode(ReplaceUrlChars(parts[3]))
               L == Len(raw) \div 2
           IN  /\ Len(parts) = 3
               /\ e.key = publicKey
               /\ e.message = parts[1] \o <<".">> \o parts[2]
               /\ e.signatureIEEE = raw
               /\ StripZeros(DerValueR(e.signatureDER)) = StripZeros(Slice(raw, 1, L))
               /\ StripZeros(DerValueS(e.signatureDER)) = StripZeros(Slice(raw, L + 1, Len(raw)))

\* the token signed for the secp256k1 key, verified through the fallback
C24_Witness ==
  /\ fn = "verifyJWTSignature"
  /\ token = prodtoken
  /\ publicKey = KEY_K1
  /\ result.value = TRUE
  /\ Len(result.trace) = 3
  /\ result.trace[1] = Event("jwt.verify", prodtoken, KEY_K1)
  /\ result.trace[2] = Event("manuallyVerifyJWTSignature", prodtoken, KEY_K1)
  /\ result.trace[3].message = <<"e", ".", "p">>
  /\ result.trace[3].signatureIEEE = SignRaw(KEY_K1, <<"e", ".", "p">>)

\* ------------------------------------------------------------------------
\* The fallback against the earlier version
\* ------------------------------------------------------------------------
\* the call went through the manual verifier
ManualVerifierCalled ==
  \E i \in 1..Len(result.trace) : result.trace[i].fn = "manuallyVerifyJWTSignature"

\* C25: verifyJWTSignature returns what the earlier version, which has no
\* fallback, returns for every token and key for which the standard
\* verification raises no curve error; what the earlier version accepts is
\* accepted; the two differ only where the curve error was raised and the
\* manual verifier accepted.  extractAndVerifyJWT returns what its earlier
\* version returns whenever no verification of the call reached the manual
\* verifier, and accepts whatever the earlier version accepts.
C25_FallbackIsConservative ==
  /\ fn = "verifyJWTSignature" =>
       LET earlier == verifyJWTSignatureEarlier(token, publicKey, env)
           std == jwtVerify(token, publicKey, VerifyOptions, env)
           curveError == /\ Truthy(token) /\ Truthy(publicKey)
                         /\ std.threw /\ Includes(std.message, <<"requires", "curve">>)
       IN  /\ ~curveError => (result.value = earlier.value /\ result.threw = earlier.threw)
           /\ earlier.value = TRUE => result.value = TRUE
           /\ result.value # earlier.value =>
                (curveError /\ ManualVerifierCalled /\ result.value = TRUE)
  /\ fn = "extractAndVerifyJWT" =>
       LET earlier == extractAndVerifyJWTEarlier(input, publicKeyProd, publicKeyDev,
                                                 isDevelopment, env)
       IN  /\ ~ManualVerifierCalled =>
                (result.value = earlier.value /\ result.threw = earlier.threw)
           /\ earlier.value.isValid => result.value = earlier.value
           /\ result.value # earlier.value =>
                (ManualVerifierCalled /\ result.value.isValid /\ ~earlier.value.isValid)

\* a token signed for the secp256k1 key: refused by the earlier version,
\* accepted by this one
C25_Witness ==
  /\ fn = "verifyJWTSignature"
  /\ token = prodtoken /\ publicKey = KEY_K1
  /\ verifyJWTSignatureEarlier(token, publicKey, env).value = FALSE
  /\ result.value = TRUE

\* ------------------------------------------------------------------------
\* Development mode against production mode
\* ------------------------------------------------------------------------
\* the call in progress, repeated with the other mode
InOtherMode ==
  extractAndVerifyJWT(input, publicKeyProd, publicKeyDev, ~isDevelopment, env)

\* C26: a call of extractAndVerifyJWT that is valid with isDevelopment =
\* false is valid, with the same token, for the same input and keys with
\* isDevelopment = true (so a call that is invalid in development mode is
\* invalid in production mode); with an empty development key the two modes
\* return the same outcome after the same calls.
C26_DevelopmentModeOnlyAdds ==
  fn = "extractAndVerifyJWT" =>
    /\ (~isDevelopment /\ result.value.isValid) =>
         /\ InOtherMode.value.isValid
         /\ InOtherMode.value.token = result.value.token
    /\ (isDevelopment /\ ~result.value.isValid) => ~InOtherMode.value.isValid
    /\ publicKeyDev = <<>> => InOtherMode = result

\* a production-mode call made valid by the production key, with a
\* development key configured that does not verify the token
C26_Witness ==
  /\ fn = "extractAndVerifyJWT"
  /\ ~isDevelopment
  /\ input = InText(prodtoken)
  /\ publicKeyProd = KEY_K1 /\ publicKeyDev = KEY_TEST
  /\ result.value.isValid
  /\ InOtherMode.value = result.value

\* ------------------------------------------------------------------------
\* Extraction applied to its own result
\* ------------------------------------------------------------------------
\* C27: a token that extractJWTFromInput returns is returned unchanged when
\* it is itself the input; and extractAndVerifyJWT, called with the token
\* extracted from its input in place of the input, with the same keys and
\* mode, returns the same outcome after the same verifier calls.
C27_ExtractionIsIdempotent ==
  /\ (fn = "extractJWTFromInput" /\ result.value # NULL) =>
       /\ ~extractJWTFromInputCall(result.value).threw
       /\ extractJWTFromInput(result.value) = result.value
  /\ (fn = "extractAndVerifyJWT" /\ extractJWTFromInput(input) # NULL) =>
       Let(extractJWTFromInput(input), LAMBDA t :
         /\ extractJWTFromInput(t) = t
         /\ extractAndVerifyJWT(t, publicKeyProd, publicKeyDev, isDevelopment, env) = result)

\* a valid token inside a sentence: the call on the sentence and the call on
\* the token alone agree
C27_Witness ==
  /\ fn = "extractAndVerifyJWT"
  /\ input = InText(validToken)
  /\ publicKeyProd = KEY_TEST
  /\ result.value.isValid
  /\ result.value.token = validToken
  /\ extractAndVerifyJWT(validToken, publicKeyProd, publicKeyDev, isDevelopment, env) = result

\* ------------------------------------------------------------------------
\* transformGoogleProfile (app/src/auth/passport-config.ts)
\* ------------------------------------------------------------------------
\* An optional array (profile.emails, profile.photos) is a record that says
\* whether the property is defined and holds the `value` of each element.
Missing == [defined |-> FALSE, items |-> <<>>]
ArrayOf(items) == [defined |-> TRUE, items |-> items]

\* array?.[0]?.value
FirstValue(array) ==
  IF ~array.defined THEN UNDEFINED
  ELSE IF Len(array.items) = 0 THEN UNDEFINED
  ELSE array.items[1]

\* x || ''
OrEmpty(x) == IF Truthy(x) THEN x ELSE <<>>

\* variant: the photo gets the default of the email
transformGoogleProfile_photoDefault(profile) ==
  [id |-> profile.id,
   email |-> OrEmpty(FirstValue(profile.emails)),
   displayName |-> OrEmpty(profile.displayName),
   photo |-> OrEmpty(FirstValue(profile.photos))]

transformGoogleProfile(profile) ==
  [id |-> profile.id,
   email |-> OrEmpty(FirstValue(profile.emails)),
   displayName |-> OrEmpty(profile.displayName),
   photo |-> FirstValue(profile.photos)]

\* most elements of profile.emails and of profile.photos
MaxItems == 2

ItemValues == {UNDEFINED, <<>>, <<"a", "@", "x">>, <<"b", "+", "c", "@", "x">>}

OptionalArrays ==
  {Missing} \cup {ArrayOf(items) : items \in UNION {[1..n -> ItemValues] : n \in 0..MaxItems}}

Profiles ==
  [id : {<<"1">>, <<"2">>},
   emails : OptionalArrays,
   displayName : {UNDEFINED, <<>>, <<"A", "n", "n">>},
   photos : OptionalArrays]

InitProfile ==
  /\ fn = "idle"
  /\ input \in Profiles
  /\ token = UNDEFINED /\ publicKey = UNDEFINED
  /\ publicKeyProd = UNDEFINED /\ publicKeyDev = UNDEFINED
  /\ isDevelopment = FALSE
  /\ signature = <<>>
  /\ result = Ret(FALSE, <<>>)
  /\ now = 0
  /\ badDerThrows = FALSE
  /\ seen = NoCall
  /\ NoHost

\* const user = transformGoogleProfile(profile)
CallTransformGoogleProfile ==
  /\ fn = "idle"
  /\ fn' = "transformGoogleProfile"
  /\ result' = Ret(transformGoogleProfile(input), <<>>)
  /\ UNCHANGED <<input, token, publicKey, publicKeyProd, publicKeyDev, isDevelopment,
                 signature, now, badDerThrows, seen, appVars>>

NextProfile == CallTransformGoogleProfile

SpecProfile == InitProfile /\ [][NextProfile]_vars

\* the first element of an optional array has a value
HasFirstValue(array) ==
  array.defined /\ Len(array.items) >= 1 /\ array.items[1] # UNDEFINED

\* C22: transformGoogleProfile returns, without throwing, the profile's id,
\* the value of the first email or '' when there is none, the display name
\* or '' when there is none, and the value of the first photo or undefined
\* when there is none; later emails and photos do not matter and the values
\* that are present are returned unchanged.
C22_ProfileIsNormalised ==
  fn = "transformGoogleProfile" =>
    LET user == result.value IN
    /\ ~result.threw
    /\ user.id = input.id
    /\ user.email = IF HasFirstValue(input.emails) THEN input.emails.items[1] ELSE <<>>
    /\ user.displayName = IF input.displayName \in {UNDEFINED, <<>>} THEN <<>>
                          ELSE input.displayName
    /\ user.photo = IF HasFirstValue(input.photos) THEN input.photos.items[1]
                    ELSE UNDEFINED

\* a profile with two emails, no display name and two photos, the first of
\* them the empty text
C22_Witness ==
  /\ fn = "transformGoogleProfile"
  /\ Len(input.emails.items) = 2
  /\ input.emails.items[1] # input.emails.items[2]
  /\ input.emails.items[1] = <<"a", "@", "x">>
  /\ input.displayName = UNDEFINED
  /\ Len(input.photos.items) = 2
  /\ input.photos.items[1] = <<>>
  /\ result.value.email = <<"a", "@", "x">>
  /\ result.value.displayName = <<>>
  /\ result.value.photo = <<>>

\* ------------------------------------------------------------------------
\* The flag stored with an entry
\* ------------------------------------------------------------------------
\* 1 when extractAndVerifyJWT returns isValid = true for the entry of the
\* request under the configured keys and mode, 0 otherwise
Verdict ==
  IF extractAndVerifyJWT(req.entry, publicKeyProd, publicKeyDev, isDevelopment, env)
       .value.isValid
  THEN 1 ELSE 0

\* the handler of a POST has issued its INSERT
InsertIssued == PostHandled /\ Calls("db.run") = 1

\* the INSERT of the request has put its row into the table
InsertDone ==
  /\ InsertIssued
  /\ \/ fn = "uncaughtException"
     \/ fn = "responded" /\ res[Len(res)].status = 302

HasQuote(text) == \E i \in 1..Len(text) : text[i] = "'"

\* as claimed: the row written for a POST to /insecure or /secure carries
\* isVerifiedJWT = 1 if and only if extractAndVerifyJWT returned isValid =
\* true for the entry of the request, and 0 otherwise, and verification is
\* complete before the insert is issued
C28_WrittenFlagIsVerdict ==
  /\ InsertIssued =>
       /\ Len(effects) >= 2
       /\ effects[Len(effects) - 1] = Ev("extractAndVerifyJWT", req.entry)
       /\ effects[Len(effects)].call = "db.run"
  /\ InsertDone => entries[Len(entries)][3] = Verdict

\* C28: in POST /insecure and POST /secure the isVerifiedJWT value placed
\* in the INSERT statement is 1 if and only if extractAndVerifyJWT returned
\* isValid = true for the entry of the request under the configured keys and
\* mode, and 0 otherwise; verification is complete before the insert is
\* issued; and when the entry's text holds no single quote, the row written
\* carries that text and that value.
C28_FlagInStatementIsVerdict ==
  /\ InsertIssued =>
       /\ Len(effects) >= 2
       /\ effects[Len(effects) - 1] = Ev("extractAndVerifyJWT", req.entry)
       /\ effects[Len(effects)] = Ev("db.run", InsertValues(req.entry, Verdict))
  /\ (InsertDone /\ ~HasQuote(TemplateText(req.entry))) =>
       entries[Len(entries)] = <<TemplateText(req.entry), IsoDate, Verdict>>

\* an authenticated POST to /secure with a token that verifies under the
\* production key, stored with the flag 1, after an entry without a token
\* stored with the flag 0
C28_Witness ==
  /\ InsertDone
  /\ req.path = <<"/secure">>
  /\ req.entry = InText(prodtoken)
  /\ Len(entries) = 2
  /\ entries[1] = <<PlainText, IsoDate, 0>>
  /\ entries[2] = <<InText(prodtoken), IsoDate, 1>>

\* ------------------------------------------------------------------------
\* The mode the host runs verification in
\* ------------------------------------------------------------------------
\* the entry of the request holds a token that verifies under the
\* development key and not under the production key
VerifiesUnderDevKeyOnly ==
  /\ IsString(req.entry)
  /\ Let(extractJWTFromInput(req.entry), LAMBDA t :
       /\ t # NULL
       /\ verifyJWTSignature(t, publicKeyDev, env).value
       /\ ~verifyJWTSignature(t, publicKeyProd, env).value)

LogoutHandled ==
  /\ fn \notin {"idle", "ensureAuthenticated"}
  /\ req.method = "GET" /\ req.path = <<"/logout">>

\* nothing more will happen for the request
RequestOver == fn \in {"responded", "uncaughtException"}

\* the position of the first call named c among the calls made, 0 if none
CallAt(c) ==
  IF Calls(c) = 0 THEN 0 ELSE Least({i \in 1..Len(effects) : effects[i].call = c})

\* C30: a POST to /insecure, an authenticated POST to /secure and a GET of
\* /logout get no response while a callback is awaited and exactly one when
\* the request is over.  For a POST it is 400 with no insert issued, or 500
\* after the insert was issued, or a redirect to the same path with the row
\* in the table.  For /logout it is 500 with no session.destroy and no
\* clearCookie, or the redirect to /insecure after req.session.destroy and
\* then res.clearCookie('connect.sid') were called.
C30_ExactlyOneResponse ==
  (PostHandled \/ LogoutHandled) =>
    /\ Len(res) = IF RequestOver THEN 1 ELSE 0
    /\ (PostHandled /\ Len(res) = 1) =>
         \/ res[1].status = 400 /\ Calls("db.run") = 0
         \/ res[1].status = 500 /\ Calls("db.run") = 1
         \/ /\ res[1] = Redirect(req.path)
            /\ Calls("db.run") = 1
            /\ Len(entries) >= 1
            /\ entries[Len(entries)] = SqlInsert(effects[Len(effects)].arg).row
    /\ (LogoutHandled /\ Len(res) = 1) =>
         \/ /\ res[1].status = 500
            /\ Calls("req.session.destroy") = 0
            /\ Calls("res.clearCookie") = 0
         \/ /\ res[1] = Redirect(<<"/insecure">>)
            /\ Calls("req.logout") = 1
            /\ Calls("req.session.destroy") = 1
            /\ Calls("res.clearCookie") = 1
            /\ CallAt("req.logout") < CallAt("req.session.destroy")
            /\ CallAt("req.session.destroy") < CallAt("res.clearCookie")
            /\ effects[Len(effects)] = Ev("res.clearCookie", <<"connect.sid">>)

====
